---- MODULE Spec2Model ----
(***************************************************************************)
(* A model of the data-source layer of data-agent: the file driver         *)
(* (sources/csv_source.py), the SQL driver (sources/sql_source.py), the    *)
(* HTTP driver (sources/api_source.py) and the source registry             *)
(* (registry.py).                                                          *)
(*                                                                         *)
(* DataFrame objects live in a heap of tables, so that "is the same        *)
(* object" and "has equal contents" are different questions.  Python       *)
(* scalars are tagged values: Num(n) for an int, Str(s) for a str.         *)
(* Optional arguments are records [some, v].                               *)
(***************************************************************************)
EXTENDS Integers, Sequences, FiniteSets, TLC

VARIABLES
    heap,       \* the DataFrame objects alive: heap[i] is the table of object i
    df_cache,   \* CSVSource._df_cache: 0 (None) or an object of heap
    held,       \* the objects callers got back from fetch and still hold
    fcall,      \* the last CSVSource.fetch call: arguments and outcome
    fileCfg,    \* the file behind the driver: [exists, suffix, big]
    fschema,    \* the last CSVSource.get_schema call and its outcome
    sources,    \* SourceRegistry._sources: the (name, driver) items in dict order
    built,      \* the driver instances constructed so far
    lastReg,    \* per name, the driver of its most recent successful register (history)
    rcall,      \* the last call on the registry, or on a driver built to be validated
    engines,    \* the drivers whose engine (connection pool) is alive
    sqlCfg,     \* SQLSource.table and SQLSource.default_query of the SQL driver
    valid_columns, \* SQLSource._valid_columns: None, or the set of column names
    tables,     \* the names of the tables the database holds
    scall,      \* the last call on the SQL driver: arguments, statements sent, outcome
    apiCfg,     \* the configuration of the HTTP driver: [url, method, params, data_path]
    remote,     \* what the endpoint answers: [status, body]
    acall,      \* the last call on the HTTP driver: arguments, request, outcome
    probe,      \* a fetch a caller has noted, to compare later ones with (history)
    hcall,      \* the last request to an endpoint of api.py and its response
    tcall,      \* the last call on ChartEngine, ChartTool, TransformTool or a static helper
    tasks,      \* the calls in flight on the event loop, each with its outcome
    running     \* the task the thread of the event loop is inside of, 0 when the loop is free

fileVars == <<heap, df_cache, held, fcall, fileCfg>>
regVars == <<sources, built, lastReg, rcall, engines>>
sqlVars == <<sqlCfg, valid_columns, tables, scall>>
apiVars == <<apiCfg, remote, acall>>
toolVars == <<hcall, tcall>>
loopVars == <<tasks, running>>

vars == <<heap, df_cache, held, fcall, fileCfg, fschema, sources, built, lastReg, rcall,
          engines, sqlCfg, valid_columns, tables, scall, apiCfg, remote, acall, probe, hcall, tcall,
          tasks, running>>

\* What a fetch on the file driver or a step of its callers, a step of the
\* registry, of the SQL driver, of the HTTP driver leaves alone.
notFileVars == <<fschema, regVars, sqlVars, apiVars, probe, toolVars, loopVars>>
notRegVars == <<fileVars, fschema, sqlVars, apiVars, probe, toolVars, loopVars>>
notSqlVars == <<fileVars, fschema, regVars, apiVars, probe, toolVars, loopVars>>
notApiVars == <<fileVars, fschema, regVars, sqlVars, probe, toolVars, loopVars>>

(***************************************************************************)
(* Bounds.                                                                 *)
(***************************************************************************)
\* DataFrame objects alive at once (the cache and the results callers hold).
MaxObjs == 3
\* Comparisons in one filter expression: literal entries plus operators.
MaxConds == 2
\* Driver instances the registry's callers construct in one run.
MaxBuilt == 3
\* Rows of the longer datasets: more than get_schema samples.
BigRows == 12

(***************************************************************************)
(* Python values and strings.                                              *)
(***************************************************************************)
Num(n) == [k |-> "num", n |-> n, s |-> ""]
Str(s) == [k |-> "str", n |-> 0, s |-> s]
\* None / NaN in a cell of a table.
Missing == [k |-> "none", n |-> 0, s |-> ""]

NoneSeq == [some |-> FALSE, v |-> <<>>]
NoneStr == [some |-> FALSE, v |-> ""]
NoneInt == [some |-> FALSE, v |-> 0]
Some(x) == [some |-> TRUE, v |-> x]

\* Python truthiness of an Optional[list] / Optional[dict], Optional[str], Optional[int].
TruthySeq(o) == o.some /\ o.v # <<>>
TruthyStr(o) == o.some /\ o.v # ""
TruthyInt(o) == o.some /\ o.v # 0

Uppercase == "ABCDEFGHIJKLMNOPQRSTUVWXYZ"
Lowercase == "abcdefghijklmnopqrstuvwxyz"
Digits == "0123456789"
\* The characters of the model in code-point order.
CodePoints == " '-.0123456789:;ABCDEFGHIJKLMNOPQRSTUVWXYZ_abcdefghijklmnopqrstuvwxyz"

CharAt(s, i) == SubSeq(s, i, i)
IndexIn(alphabet, c) ==
    IF \E i \in 1..Len(alphabet) : CharAt(alphabet, i) = c
    THEN CHOOSE i \in 1..Len(alphabet) : CharAt(alphabet, i) = c
    ELSE 0

LowerChar(c) ==
    IF IndexIn(Uppercase, c) # 0 THEN CharAt(Lowercase, IndexIn(Uppercase, c)) ELSE c

RECURSIVE Lower(_)
Lower(s) == IF Len(s) = 0 THEN "" ELSE LowerChar(CharAt(s, 1)) \o Lower(SubSeq(s, 2, Len(s)))

RECURSIVE NatToStr(_)
NatToStr(n) ==
    IF n < 10 THEN CharAt(Digits, n + 1)
    ELSE NatToStr(n \div 10) \o CharAt(Digits, (n % 10) + 1)

\* str(v): what Series.astype(str) makes of one cell.
ToStr(v) ==
    IF v.k = "str" THEN v.s
    ELSE IF v.n < 0 THEN "-" \o NatToStr(0 - v.n) ELSE NatToStr(v.n)

\* pat occurs in s (str.contains with a pattern free of regex metacharacters).
Occurs(s, pat) ==
    \E i \in 0..(Len(s) - Len(pat)) : SubSeq(s, i + 1, i + Len(pat)) = pat

RECURSIVE StrLess(_, _)
StrLess(a, b) ==
    IF Len(b) = 0 THEN FALSE
    ELSE IF Len(a) = 0 THEN TRUE
    ELSE IF CharAt(a, 1) = CharAt(b, 1)
         THEN StrLess(SubSeq(a, 2, Len(a)), SubSeq(b, 2, Len(b)))
         ELSE IndexIn(CodePoints, CharAt(a, 1)) < IndexIn(CodePoints, CharAt(b, 1))

\* Python's == and < on two scalars; < is defined within one type only.
ValEq(a, b) == a.k = b.k /\ a.n = b.n /\ a.s = b.s
ValLess(a, b) == IF a.k = "num" THEN a.n < b.n ELSE StrLess(a.s, b.s)

(***************************************************************************)
(* Tables (DataFrames): column names in order, the rows in order, and the  *)
(* storage dtype of each column.                                           *)
(***************************************************************************)
Table(cols, rows, dtypes) == [cols |-> cols, rows |-> rows, dtypes |-> dtypes]

Range(seq) == {seq[i] : i \in 1..Len(seq)}
ColSet(df) == Range(df.cols)

\* The rows at the positions of keep, in their order (boolean-mask indexing).
RECURSIVE RowsFrom(_, _, _)
RowsFrom(rows, keep, i) ==
    IF i > Len(rows) THEN <<>>
    ELSE (IF i \in keep THEN <<rows[i]>> ELSE <<>>) \o RowsFrom(rows, keep, i + 1)

RowsAt(rows, keep) == RowsFrom(rows, keep, 1)

\* The file of the test fixtures: sample_df written by tmp_csv.
FileTable ==
    Table(<<"date", "value", "category">>,
          << [date |-> Str("2024-01-01"), value |-> Num(10), category |-> Str("A")],
             [date |-> Str("2024-01-02"), value |-> Num(20), category |-> Str("B")],
             [date |-> Str("2024-01-03"), value |-> Num(30), category |-> Str("A")],
             [date |-> Str("2024-01-04"), value |-> Num(40), category |-> Str("B")],
             [date |-> Str("2024-01-05"), value |-> Num(50), category |-> Str("A")] >>,
          [date |-> "object", value |-> "int64", category |-> "object"])

\* A longer file with the same columns.
BigFileTable ==
    Table(FileTable.cols,
          [i \in 1..BigRows |->
             [date |-> Str("2024-01-" \o (IF i < 10 THEN "0" ELSE "") \o NatToStr(i)),
              value |-> Num(10 * i),
              category |-> Str(IF i % 2 = 1 THEN "A" ELSE "B")]],
          FileTable.dtypes)

\* What reading the file gives.
FileContents(cfg) == IF cfg.big THEN BigFileTable ELSE FileTable

(***************************************************************************)
(* CSVSource.fetch, step by step.  A step's outcome is                     *)
(* [err, df, fresh]: the exception raised ("" for none), the table that    *)
(* the local name df is bound to, and whether that table is an object      *)
(* made by this call (fresh) or still the object _load returned.           *)
(***************************************************************************)
Ok(df, fresh) == [err |-> "", df |-> df, fresh |-> fresh]
Fail(e, st) == [err |-> e, df |-> st.df, fresh |-> st.fresh]

Min(a, b) == IF a < b THEN a ELSE b
Max(a, b) == IF a > b THEN a ELSE b

\* df[columns]: a new frame with exactly the listed columns; KeyError if one is missing.
Project(df, columns) ==
    Table(columns,
          [i \in 1..Len(df.rows) |-> [c \in Range(columns) |-> df.rows[i][c]]],
          [c \in Range(columns) |-> df.dtypes[c]])

\* csv_source.py 64-66
SelectColumns(st, columns) ==
    IF ~TruthySeq(columns) THEN st
    ELSE IF Range(columns.v) \subseteq ColSet(st.df)
         THEN Ok(Project(st.df, columns.v), TRUE)
         ELSE Fail("KeyError", st)

\* The order in which fetch looks for the operators of an operator map.
OpOrder == <<"gte", "lte", "gt", "lt", "eq", "contains">>
Ops == Range(OpOrder)

\* Whether the comparison  df[col] <op> val  raises TypeError: an ordering of
\* a str with an int (for an int64 column whatever the rows, for an object
\* column cell by cell), or a pattern that is no str.
CmpRaises(df, col, op, val) ==
    CASE op = "eq" -> FALSE
      [] op = "contains" -> val.k # "str"
      [] OTHER ->
            IF df.dtypes[col] = "int64" THEN val.k # "num"
            ELSE \E i \in 1..Len(df.rows) : df.rows[i][col].k # val.k

\* cell <op> val, for one cell of the column.
CellHolds(op, cell, val) ==
    CASE op = "gte" -> ~ValLess(cell, val)
      [] op = "lte" -> ~ValLess(val, cell)
      [] op = "gt" -> ValLess(val, cell)
      [] op = "lt" -> ValLess(cell, val)
      [] op = "eq" -> ValEq(cell, val)
      [] op = "contains" -> Occurs(Lower(ToStr(cell)), Lower(val.s))

\* df = df[df[col] <op> val]
ApplyOp(st, col, op, val) ==
    IF st.err # "" THEN st
    ELSE IF CmpRaises(st.df, col, op, val) THEN Fail("TypeError", st)
    ELSE Ok(Table(st.df.cols,
                  RowsAt(st.df.rows,
                         {i \in 1..Len(st.df.rows) : CellHolds(op, st.df.rows[i][col], val)}),
                  st.df.dtypes),
            TRUE)

\* csv_source.py 74-85: the six "if <op> in value" tests, in source order.
RECURSIVE ApplyOps(_, _, _, _)
ApplyOps(st, col, ops, i) ==
    IF i > Len(OpOrder) THEN st
    ELSE ApplyOps(IF OpOrder[i] \in DOMAIN ops
                  THEN ApplyOp(st, col, OpOrder[i], ops[OpOrder[i]])
                  ELSE st,
                  col, ops, i + 1)

\* csv_source.py 71-87: one item of filters.items().
ApplyEntry(st, e) ==
    IF st.err # "" THEN st
    ELSE IF e.col \notin ColSet(st.df) THEN st
    ELSE IF e.isDict THEN ApplyOps(st, e.col, e.ops, 1)
    ELSE ApplyOp(st, e.col, "eq", e.lit)

\* A loop that stops after the first item of the dict.
ApplyEntries_FirstOnly(st, fs, i) ==
    IF i > Len(fs) \/ i > 1 THEN st ELSE ApplyEntry(st, fs[i])

RECURSIVE ApplyEntries(_, _, _)
ApplyEntries(st, fs, i) ==
    IF i > Len(fs) THEN st ELSE ApplyEntries(ApplyEntry(st, fs[i]), fs, i + 1)

\* csv_source.py 68-87
ApplyFilters(st, filters) ==
    IF st.err # "" \/ ~TruthySeq(filters) THEN st ELSE ApplyEntries(st, filters.v, 1)

\* A comparison that ignores the direction.
Before_Ascending(r, s, col, ascending) == ValLess(r[col], s[col])

\* r goes before s in the requested direction.
Before(r, s, col, ascending) ==
    IF ascending THEN ValLess(r[col], s[col]) ELSE ValLess(s[col], r[col])

\* Insert r into sorted rows, after every row that does not go after it.
RECURSIVE InsertRow(_, _, _, _)
InsertRow(sorted, r, col, ascending) ==
    IF sorted = <<>> THEN <<r>>
    ELSE IF Before(r, Head(sorted), col, ascending) THEN <<r>> \o sorted
    ELSE <<Head(sorted)>> \o InsertRow(Tail(sorted), r, col, ascending)

RECURSIVE SortFrom(_, _, _, _, _)
SortFrom(rows, col, ascending, i, acc) ==
    IF i > Len(rows) THEN acc
    ELSE SortFrom(rows, col, ascending, i + 1, InsertRow(acc, rows[i], col, ascending))

\* DataFrame.sort_values(col, ascending=...)
SortValues(df, col, ascending) ==
    Table(df.cols, SortFrom(df.rows, col, ascending, 1, <<>>), df.dtypes)

\* csv_source.py 89-96
ApplySort(st, order_by) ==
    IF st.err # "" \/ ~TruthyStr(order_by) THEN st
    ELSE LET desc == CharAt(order_by.v, 1) = "-"
             name == IF desc THEN SubSeq(order_by.v, 2, Len(order_by.v)) ELSE order_by.v
         IN IF name \in ColSet(st.df)
            THEN Ok(SortValues(st.df, name, ~desc), TRUE)
            ELSE st

\* DataFrame.head(n): the first n rows, or all but the last -n for n < 0.
HeadRows(df, n) ==
    Table(df.cols,
          SubSeq(df.rows, 1, IF n >= 0 THEN Min(n, Len(df.rows)) ELSE Max(0, Len(df.rows) + n)),
          df.dtypes)

\* csv_source.py 98-100
ApplyLimit(st, limit) ==
    IF st.err # "" \/ ~TruthyInt(limit) THEN st
    ELSE Ok(HeadRows(st.df, limit.v), TRUE)

\* csv_source.py 62-102, on the table _load returned.
FetchFrom(df, a) ==
    ApplyLimit(ApplySort(ApplyFilters(SelectColumns(Ok(df, FALSE), a.columns),
                                      a.filters),
                         a.order_by),
               a.limit)

FetchArgs(columns, filters, limit, order_by) ==
    [columns |-> columns, filters |-> filters, limit |-> limit, order_by |-> order_by]

\* A result that reports the number of columns as its row count.
FetchAsResult_ColumnCount(name, df) ==
    [source_name |-> name, columns |-> df.cols, data |-> df.rows, row_count |-> Len(df.cols)]

\* base.py 61-83: the DataResult fetch_as_result wraps a fetched table in.
FetchAsResult(name, df) ==
    [source_name |-> name, columns |-> df.cols, data |-> df.rows, row_count |-> Len(df.rows)]

(***************************************************************************)
(* The arguments the callers pass.                                         *)
(***************************************************************************)
\* One item of a filters dict: a literal, or an operator map.
LitEntry(col, v) == [col |-> col, isDict |-> FALSE, lit |-> v, ops |-> <<>>]
DictEntry(col, ops) == [col |-> col, isDict |-> TRUE, lit |-> Num(0), ops |-> ops]

\* The comparisons an entry asks for.
Conds(e) == IF e.isDict THEN Cardinality(DOMAIN e.ops) ELSE 1

FilterCols == {"category", "value", "nope"}
FilterVals == {Num(30), Str("a")}

OpMaps(vals, k) == UNION {[S -> vals] : S \in {T \in SUBSET Ops : Cardinality(T) = k}}

EntriesOf(col, vals, budget) ==
    {LitEntry(col, v) : v \in IF budget >= 1 THEN vals ELSE {}}
    \cup {DictEntry(col, m) : m \in UNION {OpMaps(vals, k) : k \in 1..budget}}

\* The filter dicts (as item sequences, keys distinct) over the keys of cols
\* and the values of vals that ask for at most budget comparisons.
RECURSIVE FilterSeqs(_, _, _)
FilterSeqs(cols, vals, budget) ==
    {<<>>} \cup
    UNION {{<<e>> \o rest : rest \in FilterSeqs(cols \ {e.col}, vals, budget - Conds(e))} :
           e \in UNION {EntriesOf(c, vals, budget) : c \in cols}}

FilterInputs == {NoneSeq} \cup {Some(f) : f \in FilterSeqs(FilterCols, FilterVals, MaxConds)}

SmallFilters ==
    { NoneSeq,
      Some(<<LitEntry("category", Str("A"))>>),
      Some(<<DictEntry("value", [o \in {"gte"} |-> Num(30)])>>),
      Some(<<LitEntry("nope", Str("A"))>>),
      Some(<<DictEntry("value", <<>>)>>) }

ColumnNames == {"value", "category", "nope"}
ColumnInputs ==
    {NoneSeq, Some(<<>>)}
    \cup {Some(<<c>>) : c \in ColumnNames}
    \cup {Some(<<p[1], p[2]>>) : p \in {q \in ColumnNames \X ColumnNames : q[1] # q[2]}}

LimitInputs == {NoneInt, Some(0), Some(2), Some(7)}
OrderInputs == {NoneStr, Some(""), Some("value"), Some("-value"), Some("category"), Some("-nope")}

\* What the fetch-as-a-function specification draws from: every filter
\* expression within the bound on its own, and a few filters with every
\* combination of the other arguments.
FetchInputs ==
    {FetchArgs(NoneSeq, f, NoneInt, NoneStr) : f \in FilterInputs}
    \cup {FetchArgs(c, f, l, o) :
            c \in ColumnInputs, f \in SmallFilters, l \in LimitInputs, o \in OrderInputs}

\* What the callers of the cache specification pass: the calls of the tests
\* (test_phase1.py 24-35, test_phase1_bugs.py 76-99) and calls whose
\* arguments are given but select nothing.
CacheInputs ==
    { FetchArgs(NoneSeq, NoneSeq, NoneInt, NoneStr),
      FetchArgs(NoneSeq, Some(<<LitEntry("category", Str("A"))>>), NoneInt, NoneStr),
      FetchArgs(Some(<<"value">>), NoneSeq, Some(2), NoneStr),
      FetchArgs(Some(<<>>), Some(<<LitEntry("nope", Str("A"))>>), Some(0), Some("-nope")) }

(***************************************************************************)
(* The file driver.                                                        *)
(***************************************************************************)
Suffixes == {".csv", ".CSV", ".json", ".tsv", ".txt"}

NoTable == Table(<<>>, <<>>, <<>>)
NoCall == [done |-> FALSE, args |-> FetchArgs(NoneSeq, NoneSeq, NoneInt, NoneStr),
           err |-> "", ret |-> 0, out |-> NoTable, prior |-> {}, cached |-> 0]

\* A load that reads the file on every call and puts a new table in the cache.
Load_Reload(h, cache, cfg) ==
    IF Lower(cfg.suffix) \notin {".json", ".csv", ".tsv"}
    THEN [err |-> "ValueError", heap |-> h, id |-> 0]
    ELSE IF ~cfg.exists THEN [err |-> "FileNotFoundError", heap |-> h, id |-> 0]
    ELSE [err |-> "", heap |-> Append(h, FileContents(cfg)), id |-> Len(h) + 1]

\* csv_source.py 31-52: the object _load returns and the heap after it.
Load(h, cache, cfg) ==
    IF cache # 0 THEN [err |-> "", heap |-> h, id |-> cache]
    ELSE IF Lower(cfg.suffix) \notin {".json", ".csv", ".tsv"}
         THEN [err |-> "ValueError", heap |-> h, id |-> 0]
    ELSE IF ~cfg.exists THEN [err |-> "FileNotFoundError", heap |-> h, id |-> 0]
    ELSE [err |-> "", heap |-> Append(h, FileContents(cfg)), id |-> Len(h) + 1]

\* csv_source.py 54-102: one call of CSVSource.fetch.  The coroutine has no
\* real suspension point, so the call is one step.
CSVFetch(a) ==
    /\ UNCHANGED notFileVars
    /\ \E L \in {Load(heap, df_cache, fileCfg)} :
       IF L.err # ""
       THEN /\ fcall' = [NoCall EXCEPT !.done = TRUE, !.args = a, !.err = L.err,
                                       !.prior = held]
            /\ UNCHANGED <<heap, df_cache, held, fileCfg>>
       ELSE \E r \in {FetchFrom(L.heap[L.id], a)} :
            \E h2 \in {IF r.err = "" /\ r.fresh THEN Append(L.heap, r.df) ELSE L.heap} :
            \E ret \in {IF r.err # "" THEN 0 ELSE IF r.fresh THEN Len(h2) ELSE L.id} :
               /\ Len(h2) <= MaxObjs
               /\ heap' = h2
               /\ df_cache' = L.id
               /\ held' = (IF ret = 0 THEN held ELSE held \cup {ret})
               /\ fcall' = [done |-> TRUE, args |-> a, err |-> r.err, ret |-> ret,
                            out |-> IF ret = 0 THEN NoTable ELSE h2[ret],
                            prior |-> held, cached |-> L.id]
               /\ UNCHANGED fileCfg

(***************************************************************************)
(* The callers: what the tests do to a table they got back.                *)
(***************************************************************************)
\* df[col] = 999 (test_phase1.py 25, test_phase1_bugs.py 81): a new column,
\* or new values for a column that is there.
SetColumn(df, col) ==
    Table(IF col \in ColSet(df) THEN df.cols ELSE Append(df.cols, col),
          [i \in 1..Len(df.rows) |->
              [c \in ColSet(df) \cup {col} |-> IF c = col THEN Num(999) ELSE df.rows[i][c]]],
          [c \in ColSet(df) \cup {col} |-> IF c = col THEN "int64" ELSE df.dtypes[c]])

\* df.drop(df.index, inplace=True) (test_phase1.py 34)
DropAll(df) == Table(df.cols, <<>>, df.dtypes)

MutateColumn(id, col) ==
    /\ id \in held
    /\ heap' = [heap EXCEPT ![id] = SetColumn(heap[id], col)]
    /\ UNCHANGED <<df_cache, held, fcall, fileCfg, notFileVars>>

MutateDrop(id) ==
    /\ id \in held
    /\ heap' = [heap EXCEPT ![id] = DropAll(heap[id])]
    /\ UNCHANGED <<df_cache, held, fcall, fileCfg, notFileVars>>

\* The callers let go of every table they hold; what only they referenced is
\* collected, the driver's cache stays.
Release ==
    /\ held # {}
    /\ heap' = IF df_cache = 0 THEN <<>> ELSE <<heap[df_cache]>>
    /\ df_cache' = IF df_cache = 0 THEN 0 ELSE 1
    /\ held' = {}
    /\ fcall' = NoCall
    /\ UNCHANGED <<fileCfg, notFileVars>>

InitFile ==
    /\ heap = <<>>
    /\ df_cache = 0
    /\ held = {}
    /\ fcall = NoCall
    /\ fileCfg \in [exists : BOOLEAN, suffix : Suffixes, big : BOOLEAN]
    /\ fschema = [done |-> FALSE, err |-> "",
                  schema |-> [source_name |-> "", columns |-> <<>>, row_count |-> 0]]

(***************************************************************************)
(* The source registry.                                                    *)
(***************************************************************************)
Names == {"sales", "metrics"}

\* The files that exist, for the file driver's path.
ExistingPaths == {"/data/sales.csv"}
\* The connection strings create_engine accepts.
EngineURLs == {"sqlite:///test.db"}

\* models.py 21-26: DataSourceConfig.  config is the key-value map.
SourceConfig(name, type, config) == [name |-> name, type |-> type, config |-> config]

\* What callers register: each source type with its preconditions met, and
\* with each of them broken.
ConfigInputs ==
    { [type |-> "csv", config |-> [path |-> "/data/sales.csv"]],
      [type |-> "csv", config |-> [path |-> "/data/nope.csv"]],
      [type |-> "json", config |-> [encoding |-> "utf-8"]],
      [type |-> "sql", config |-> [connection_string |-> "sqlite:///test.db", table |-> "test_table"]],
      [type |-> "sql", config |-> [connection_string |-> "invalid://connection", table |-> "test"]],
      [type |-> "rest_api", config |-> [url |-> "http://api/a"]],
      [type |-> "rest_api", config |-> [url |-> "http://api/b"]],
      [type |-> "rest_api", config |-> [url |-> ""]],
      [type |-> "rest_api", config |-> [method |-> "GET"]] }

\* registry.py 18-23
SOURCE_CLASSES ==
    [csv |-> "CSVSource", json |-> "CSVSource", rest_api |-> "APISource", sql |-> "SQLSource"]

\* The exception the driver's constructor raises, "" for none: a missing
\* required key (csv_source.py 25, api_source.py 27, sql_source.py 35) or a
\* connection string create_engine refuses (sql_source.py 38).
ConstructError(cls, config) ==
    CASE cls = "CSVSource" -> IF "path" \in DOMAIN config THEN "" ELSE "KeyError"
      [] cls = "APISource" -> IF "url" \in DOMAIN config THEN "" ELSE "KeyError"
      [] cls = "SQLSource" ->
            IF "connection_string" \notin DOMAIN config THEN "KeyError"
            ELSE IF config.connection_string \notin EngineURLs THEN "NoSuchModuleError"
            ELSE ""

\* The classes that have a validate method: APISource defines one
\* (api_source.py 38-42); DataSource, CSVSource and SQLSource define none.
ClassesWithValidate == {"APISource"}

\* source.validate(): the exception it raises, "" for none.
ValidateError(cls, config) ==
    IF cls \notin ClassesWithValidate THEN "AttributeError"
    ELSE IF config.url = "" THEN "SourceValidationError"
    ELSE ""

Driver(id, cls, name, config) == [id |-> id, cls |-> cls, name |-> name, config |-> config]
NoDriver == Driver(0, "", "", <<>>)

\* dict operations on the item sequence.
Keys(d) == [i \in 1..Len(d) |-> d[i].name]
HasKey(d, name) == \E i \in 1..Len(d) : d[i].name = name
Lookup(d, name) ==
    IF HasKey(d, name) THEN d[CHOOSE i \in 1..Len(d) : d[i].name = name].drv ELSE NoDriver

\* An assignment that leaves the driver of a key that is there in place.
SetItem_KeepOld(d, name, drv) ==
    IF HasKey(d, name) THEN d ELSE Append(d, [name |-> name, drv |-> drv])

\* d[name] = drv: a key that is there keeps its place, a new key goes last.
SetItem(d, name, drv) ==
    IF HasKey(d, name)
    THEN [i \in 1..Len(d) |-> IF d[i].name = name THEN [name |-> name, drv |-> drv] ELSE d[i]]
    ELSE Append(d, [name |-> name, drv |-> drv])

\* A removal of the newest item rather than of the named one.
DelItem_PopLast(d, name) == SubSeq(d, 1, Len(d) - 1)

\* del d[name]
DelItem(d, name) == RowsAt(d, {i \in 1..Len(d) : d[i].name # name})

\* registry.py 45-46
List(d) == Keys(d)

RECURSIVE Join(_, _)
Join(strs, sep) ==
    IF Len(strs) = 0 THEN ""
    ELSE IF Len(strs) = 1 THEN strs[1]
    ELSE strs[1] \o sep \o Join(Tail(strs), sep)

\* exceptions.py 13-23: SourceNotFoundError(source_name, available).
SourceNotFound(name, available) ==
    [kind |-> "SourceNotFoundError", source_name |-> name, available |-> available,
     message |-> "Data source '" \o name \o "' not found. Available: "
                 \o (IF available # <<>> THEN Join(available, ", ") ELSE "none")]

NoError == [kind |-> "", source_name |-> "", available |-> <<>>, message |-> ""]
Raised(kind) == [NoError EXCEPT !.kind = kind]

NoResult == [source_name |-> "", columns |-> <<>>, data |-> <<>>, row_count |-> 0]

NoRCall == [op |-> "", name |-> "", cfg |-> [type |-> "", config |-> <<>>],
            err |-> NoError, msg |-> "", ret |-> NoDriver, listed |-> <<>>, invoked |-> 0,
            args |-> FetchArgs(NoneSeq, NoneSeq, NoneInt, NoneStr), result |-> NoResult,
            schema |-> [source_name |-> "", columns |-> <<>>, row_count |-> 0],
            doc |-> [exists |-> FALSE, empty |-> FALSE, has_sources |-> FALSE, null |-> FALSE,
                     entries |-> <<>>],
            skipped |-> <<>>]

\* sql_source.py 38: the engines the constructor of driver id creates.  No
\* driver has a method that disposes of its engine.
Pool(id, cls, config) ==
    IF cls = "SQLSource" /\ ConstructError(cls, config) = "" THEN {id} ELSE {}

\* registry.py 28-37: what register(config) makes of the registry, with the
\* exception it raises ("" for none) or the confirmation it returns.
Registered(srcs, b, last, name, c) ==
    LET cls == SOURCE_CLASSES[c.type]
        e1 == ConstructError(cls, c.config)
        e2 == IF e1 # "" THEN e1 ELSE ValidateError(cls, c.config)
        drv == Driver(b + 1, cls, name, c.config)
    IN [sources |-> IF e2 = "" THEN SetItem(srcs, name, drv) ELSE srcs,
        built |-> IF e1 = "" THEN b + 1 ELSE b,
        lastReg |-> IF e2 = "" THEN [last EXCEPT ![name] = drv] ELSE last,
        pool |-> Pool(b + 1, cls, c.config),
        err |-> e2,
        msg |-> IF e2 = "" THEN "Data source '" \o name \o "' registered (" \o c.type \o ")"
                ELSE ""]

\* registry.register(DataSourceConfig(name=name, type=..., config=...))
Register(name, c) ==
    /\ UNCHANGED notRegVars
    /\ built < MaxBuilt
    /\ \E r \in {Registered(sources, built, lastReg, name, c)} :
          /\ sources' = r.sources
          /\ built' = r.built
          /\ lastReg' = r.lastReg
          /\ engines' = engines \cup r.pool
          /\ rcall' = [NoRCall EXCEPT !.op = "register", !.name = name, !.cfg = c,
                                      !.err = Raised(r.err), !.msg = r.msg]

\* registry.py 39-43
Unregister(name) ==
    /\ IF HasKey(sources, name)
       THEN /\ sources' = DelItem(sources, name)
            /\ rcall' = [NoRCall EXCEPT !.op = "unregister", !.name = name,
                                        !.msg = "Data source '" \o name \o "' removed"]
       ELSE /\ sources' = sources
            /\ rcall' = [NoRCall EXCEPT !.op = "unregister", !.name = name,
                                        !.msg = "Data source '" \o name \o "' not found"]
    /\ UNCHANGED <<built, lastReg, engines, notRegVars>>

\* registry.py 45-46
ListSources ==
    /\ rcall' = [NoRCall EXCEPT !.op = "list", !.listed = List(sources)]
    /\ UNCHANGED <<sources, built, lastReg, engines, notRegVars>>

\* A not-found error raised without the list of names.
GetError_NoList(d, name) ==
    IF ~HasKey(d, name) THEN SourceNotFound(name, <<>>) ELSE NoError

\* registry.py 48-51: the exception get raises (NoError for none).
GetError(d, name) ==
    IF ~HasKey(d, name) THEN SourceNotFound(name, List(d)) ELSE NoError

Get(name) ==
    /\ rcall' = [NoRCall EXCEPT !.op = "get", !.name = name,
                                !.err = GetError(sources, name),
                                !.ret = Lookup(sources, name)]
    /\ UNCHANGED <<sources, built, lastReg, engines, notRegVars>>

InitReg ==
    /\ sources = <<>>
    /\ built = 0
    /\ lastReg = [n \in Names |-> NoDriver]
    /\ rcall = NoRCall
    /\ engines = {}

(***************************************************************************)
(* The SQL driver (sources/sql_source.py) and the database behind it.      *)
(***************************************************************************)
\* The table name of test_phase1_bugs.py 64, and a value full of SQL
\* metacharacters (test_phase1_bugs.py 27).
BadTable == "test; DROP TABLE users; --"
Evil == "'; DROP TABLE test_table; --"
BadColumn == "value; DROP TABLE test_table;--"

\* _SAFE_IDENTIFIER: ^[A-Za-z_][A-Za-z0-9_]*$ under re.match, whose $ also
\* matches just before a newline that ends the string.
Chars(str) == {CharAt(str, i) : i \in 1..Len(str)}
SafeFirst == Chars(Uppercase \o Lowercase \o "_")
SafeRest == SafeFirst \cup Chars(Digits)

AllIn(s, alphabet) == \A i \in 1..Len(s) : CharAt(s, i) \in alphabet

SafeIdentifier(s) ==
    LET body == IF Len(s) > 0 /\ CharAt(s, Len(s)) = "\n" THEN SubSeq(s, 1, Len(s) - 1) ELSE s
    IN /\ Len(body) > 0
       /\ CharAt(body, 1) \in SafeFirst
       /\ AllIn(body, SafeRest)

\* The tables the database can hold: test_table is sample_df (conftest.py
\* 52-59); users and the oddly named one are one-column tables.
IdTable == Table(<<"id">>, <<[id |-> Num(1)], [id |-> Num(2)]>>, [id |-> "int64"])
Catalog(t) == IF t = "test_table" THEN FileTable ELSE IdTable
TableNames == {"test_table", "users", BadTable}

\* The column types the inspector reports for a table of the catalog, as
\* DataFrame.to_sql declared them (conftest.py 57).
SqlType(t, c) ==
    IF Catalog(t).dtypes[c] = "int64" THEN "BIGINT"
    ELSE IF c = "date" THEN "DATETIME"
    ELSE "TEXT"

NoValid == [some |-> FALSE, v |-> {}]

\* The local state of one fetch while it builds its statement: the exception
\* raised so far (kind "" for none), the query text, the bound parameters
\* (a dict, as its items in order), the conditions list (each with the
\* column, operator and parameter its text names) and _valid_columns.
BuildState(valid) ==
    [kind |-> "", msg |-> "", query |-> "", params |-> <<>>, conditions |-> <<>>,
     valid |-> valid]

Raise(st, kind, msg) == [st EXCEPT !.kind = kind, !.msg = msg]

\* A cache that has lost a column when it is read again.
GetValidColumns_Stale(valid, table, tbls) ==
    IF ~valid.some /\ TruthyStr(table)
    THEN IF table.v \in tbls
         THEN [kind |-> "", valid |-> Some(ColSet(Catalog(table.v)))]
         ELSE [kind |-> "NoSuchTableError", valid |-> valid]
    ELSE [kind |-> "", valid |-> [valid EXCEPT !.v = @ \ {"value"}]]

\* sql_source.py 41-47: the cache after the call, or the inspector's error.
GetValidColumns(valid, table, tbls) ==
    IF ~valid.some /\ TruthyStr(table)
    THEN IF table.v \in tbls
         THEN [kind |-> "", valid |-> Some(ColSet(Catalog(table.v)))]
         ELSE [kind |-> "NoSuchTableError", valid |-> valid]
    ELSE [kind |-> "", valid |-> valid]

\* A check of the identifier's shape alone, without the table's columns.
ValidateColumn_IdentifierOnly(st, col, table, tbls) ==
    IF st.kind # "" THEN st
    ELSE IF ~SafeIdentifier(col) THEN Raise(st, "ValueError", "Invalid SQL identifier")
    ELSE st

\* sql_source.py 49-55
ValidateColumn(st, col, table, tbls) ==
    IF st.kind # "" THEN st
    ELSE IF ~SafeIdentifier(col) THEN Raise(st, "ValueError", "Invalid SQL identifier")
    ELSE \* valid = self._get_valid_columns()
         LET g == GetValidColumns(st.valid, table, tbls)
         IN IF g.kind # "" THEN Raise(st, g.kind, "no such table")
            ELSE IF g.valid.v # {} /\ col \notin g.valid.v
                 THEN Raise([st EXCEPT !.valid = g.valid], "ValueError", "Column not found in table")
                 ELSE [st EXCEPT !.valid = g.valid]

\* sql_source.py 71-76: for c in columns: self._validate_column(c)
RECURSIVE ValidateColumns(_, _, _, _, _)
ValidateColumns(st, columns, i, table, tbls) ==
    IF i > Len(columns) THEN st
    ELSE ValidateColumns(ValidateColumn(st, columns[i], table, tbls), columns, i + 1, table, tbls)

\* params[param_name] = val
SetParam(params, name, val) ==
    IF \E i \in 1..Len(params) : params[i].name = name
    THEN [i \in 1..Len(params) |->
            IF params[i].name = name THEN [name |-> name, val |-> val] ELSE params[i]]
    ELSE Append(params, [name |-> name, val |-> val])

\* sql_source.py 89: the operators with an SQL spelling.
SqlOps == [gte |-> ">=", lte |-> "<=", gt |-> ">", lt |-> "<", eq |-> "="]

\* A condition that carries the value in its text.
CondText_Interpolated(col, sql_op, param_name, val) ==
    col \o " " \o sql_op \o " '" \o ToStr(val) \o "'"

\* sql_source.py 91, 95: the text of one condition; val goes to params only.
CondText(col, sql_op, param_name, val) ==
    col \o " " \o sql_op \o " :" \o param_name

\* sql_source.py 91-92, 95-96
AddCondition(st, col, sql_op, param_name, val) ==
    [st EXCEPT !.conditions = Append(@, [text |-> CondText(col, sql_op, param_name, val),
                                        col |-> col, op |-> sql_op, param |-> param_name]),
               !.params = SetParam(@, param_name, val)]

\* sql_source.py 87-92: the items of an operator map; an operator without an
\* SQL spelling adds nothing.  The map's items are taken in OpOrder.
RECURSIVE AddOps(_, _, _, _, _)
AddOps(st, i, col, ops, k) ==
    IF k > Len(OpOrder) THEN st
    ELSE LET op == OpOrder[k]
         IN AddOps(IF op \in DOMAIN ops /\ op \in DOMAIN SqlOps
                   THEN AddCondition(st, col, SqlOps[op], "p" \o NatToStr(i) \o "_" \o op, ops[op])
                   ELSE st,
                   i, col, ops, k + 1)

\* sql_source.py 84-96: item i (from 0) of filters.items().
AddFilter(st, i, e, table, tbls) ==
    LET v == ValidateColumn(st, e.col, table, tbls)
    IN IF v.kind # "" THEN v
       ELSE IF e.isDict THEN AddOps(v, i, e.col, e.ops, 1)
       ELSE AddCondition(v, e.col, "=", "p" \o NatToStr(i), e.lit)

RECURSIVE AddFilters(_, _, _, _, _)
AddFilters(st, fs, i, table, tbls) ==
    IF i > Len(fs) THEN st
    ELSE AddFilters(AddFilter(st, i - 1, fs[i], table, tbls), fs, i + 1, table, tbls)

CondTexts(conditions) == [i \in 1..Len(conditions) |-> conditions[i].text]

\* sql_source.py 81-99
WhereClause(st, filters, table, tbls) ==
    IF st.kind # "" \/ ~TruthySeq(filters) THEN st
    ELSE LET f == AddFilters(st, filters.v, 1, table, tbls)
         IN IF f.kind = "" /\ f.conditions # <<>>
            THEN [f EXCEPT !.query = @ \o " WHERE " \o Join(CondTexts(f.conditions), " AND ")]
            ELSE f

SortCol(order_by) ==
    IF CharAt(order_by, 1) = "-" THEN SubSeq(order_by, 2, Len(order_by)) ELSE order_by
Direction(order_by) == IF CharAt(order_by, 1) = "-" THEN "DESC" ELSE "ASC"

\* sql_source.py 101-109
OrderClause(st, order_by, table, tbls) ==
    IF st.kind # "" \/ ~TruthyStr(order_by) THEN st
    ELSE LET v == ValidateColumn(st, SortCol(order_by.v), table, tbls)
         IN IF v.kind # "" THEN v
            ELSE [v EXCEPT !.query = @ \o " ORDER BY " \o SortCol(order_by.v)
                                       \o " " \o Direction(order_by.v)]

\* sql_source.py 111-113
LimitClause(st, limit) ==
    IF st.kind # "" \/ ~TruthyInt(limit) THEN st
    ELSE [st EXCEPT !.query = @ \o " LIMIT " \o ToStr(Num(limit.v))]

\* sql_source.py 71-78
SelectClause(st, columns, table, tbls) ==
    LET v == IF TruthySeq(columns) THEN ValidateColumns(st, columns.v, 1, table, tbls) ELSE st
    IN IF v.kind # "" THEN v
       ELSE [v EXCEPT !.query = "SELECT "
                                \o (IF TruthySeq(columns) THEN Join(columns.v, ", ") ELSE "*")
                                \o " FROM " \o table.v]

\* A construction that prefers the table to the raw query.
BuildQuery_TableFirst(cfg, a, valid, tbls) ==
    IF TruthyStr(cfg.table)
    THEN IF ~SafeIdentifier(cfg.table.v)
         THEN Raise(BuildState(valid), "ValueError", "Invalid SQL identifier")
         ELSE LimitClause(
                OrderClause(
                  WhereClause(SelectClause(BuildState(valid), a.columns, cfg.table, tbls),
                              a.filters, cfg.table, tbls),
                  a.order_by, cfg.table, tbls),
                a.limit)
    ELSE IF TruthyStr(cfg.query) THEN [BuildState(valid) EXCEPT !.query = cfg.query.v]
    ELSE Raise(BuildState(valid), "ValueError", "Either 'table' or 'query' must be configured")

\* sql_source.py 64-115: the statement fetch builds, or the exception it raises.
BuildQuery(cfg, a, valid, tbls) ==
    IF TruthyStr(cfg.query) THEN [BuildState(valid) EXCEPT !.query = cfg.query.v]
    ELSE IF TruthyStr(cfg.table)
    THEN IF ~SafeIdentifier(cfg.table.v)
         THEN Raise(BuildState(valid), "ValueError", "Invalid SQL identifier")
         ELSE LimitClause(
                OrderClause(
                  WhereClause(SelectClause(BuildState(valid), a.columns, cfg.table, tbls),
                              a.filters, cfg.table, tbls),
                  a.order_by, cfg.table, tbls),
                a.limit)
    ELSE Raise(BuildState(valid), "ValueError", "Either 'table' or 'query' must be configured")

(***************************************************************************)
(* The database: what it answers to a statement.                           *)
(***************************************************************************)
\* The value as the column's affinity presents it: a number compared with a
\* TEXT cell is compared as its text.
Coerce(cell, val) == IF cell.k = "str" /\ val.k = "num" THEN Str(ToStr(val)) ELSE val

\* SQLite's ordering of values: any number before any text.
SqlLess(a, b) == IF a.k = b.k THEN ValLess(a, b) ELSE a.k = "num"

SqlHolds(sql_op, cell, val) ==
    LET v == Coerce(cell, val)
    IN CASE sql_op = ">=" -> ~SqlLess(cell, v)
         [] sql_op = "<=" -> ~SqlLess(v, cell)
         [] sql_op = ">" -> SqlLess(v, cell)
         [] sql_op = "<" -> SqlLess(cell, v)
         [] sql_op = "=" -> ValEq(cell, v)

ParamVal(params, name) == params[CHOOSE i \in 1..Len(params) : params[i].name = name].val

\* A name as the database reads it in the statement: the identifier
\* characters that start what the driver put there.
RECURSIVE IdentPrefix(_)
IdentPrefix(s) ==
    IF Len(s) = 0 \/ CharAt(s, 1) \notin SafeRest THEN ""
    ELSE CharAt(s, 1) \o IdentPrefix(SubSeq(s, 2, Len(s)))

\* The column names the statement of a fetch refers to.
Referenced(a, st) ==
    {IdentPrefix(n) :
       n \in (IF TruthySeq(a.columns) THEN Range(a.columns.v) ELSE {})
             \cup {st.conditions[j].col : j \in 1..Len(st.conditions)}
             \cup (IF TruthyStr(a.order_by) THEN {SortCol(a.order_by.v)} ELSE {})}

\* The rows of SELECT ... FROM t WHERE ... ORDER BY ... LIMIT ... with the
\* parameters bound.
RunSelect(t, a, st) ==
    LET df == Catalog(t)
        kept == Table(df.cols,
                      RowsAt(df.rows,
                             {i \in 1..Len(df.rows) :
                                \A j \in 1..Len(st.conditions) :
                                   SqlHolds(st.conditions[j].op,
                                            df.rows[i][IdentPrefix(st.conditions[j].col)],
                                            ParamVal(st.params, st.conditions[j].param))}),
                      df.dtypes)
        sorted == IF TruthyStr(a.order_by)
                  THEN SortValues(kept, IdentPrefix(SortCol(a.order_by.v)),
                                  Direction(a.order_by.v) = "ASC")
                  ELSE kept
        cut == IF TruthyInt(a.limit) /\ a.limit.v >= 0 THEN HeadRows(sorted, a.limit.v) ELSE sorted
    IN IF TruthySeq(a.columns)
       THEN Project(cut, [i \in 1..Len(a.columns.v) |-> IdentPrefix(a.columns.v[i])])
       ELSE cut

\* The custom query of a source configured with one, and what it selects.
RawQuery == "SELECT value FROM test_table WHERE value > 25"
RawResult ==
    Project(Table(FileTable.cols, SubSeq(FileTable.rows, 3, 5), FileTable.dtypes), <<"value">>)

\* The tables a statement stacked behind the first one would drop.
Dropped(text, tbls) == {t \in tbls : Occurs(text, "DROP TABLE " \o t)}

\* conn.execute(text(query), params): the outcomes a database can produce.
\* A statement that reads a table or a column it does not have fails; a
\* stacked DROP is either refused by the driver or run, depending on the
\* backend.
Execute(text, from, refs, result, tbls) ==
    IF from \notin tbls \/ ~(refs \subseteq ColSet(Catalog(from)))
    THEN {[kind |-> "OperationalError", out |-> NoTable, tables |-> tbls]}
    ELSE IF Dropped(text, tbls) = {}
    THEN {[kind |-> "", out |-> result, tables |-> tbls]}
    ELSE {[kind |-> "ProgrammingError", out |-> NoTable, tables |-> tbls],
          [kind |-> "", out |-> result, tables |-> tbls \ Dropped(text, tbls)]}

\* pd.to_datetime accepts the column: every cell reads as a date or is
\* missing (an empty column does).
IsDate(v) == v.k = "str" /\ Len(v.s) = 10 /\ CharAt(v.s, 5) = "-" /\ CharAt(v.s, 8) = "-"
AllDates(df, c) == \A i \in 1..Len(df.rows) : IsDate(df.rows[i][c]) \/ df.rows[i][c] = Missing

\* sql_source.py 123-129
ParseDates(df) ==
    Table(df.cols, df.rows,
          [c \in DOMAIN df.dtypes |->
             IF df.dtypes[c] = "object" /\ AllDates(df, c) THEN "datetime64[ns]" ELSE df.dtypes[c]])

NoSchema == [source_name |-> "", columns |-> <<>>, row_count |-> 0]
Statement(text, params) == [text |-> text, params |-> params]

SqlOutcome(kind, msg, sent, out, valid, tbls, conditions) ==
    [kind |-> kind, msg |-> msg, sent |-> sent, out |-> out, valid |-> valid,
     tables |-> tbls, conditions |-> conditions]

\* sql_source.py 57-131: the outcomes of fetch(a).
FetchOutcomes(cfg, a, valid, tbls) ==
    UNION {
      IF b.kind # ""
      THEN {SqlOutcome(b.kind, b.msg, <<>>, NoTable, b.valid, tbls, b.conditions)}
      ELSE {SqlOutcome(x.kind, IF x.kind = "" THEN "" ELSE "statement failed",
                       <<Statement(b.query, b.params)>>,
                       IF x.kind = "" THEN ParseDates(x.out) ELSE NoTable,
                       b.valid, x.tables, b.conditions) :
              x \in Execute(b.query,
                            IF TruthyStr(cfg.query) THEN "test_table" ELSE IdentPrefix(cfg.table.v),
                            IF TruthyStr(cfg.query) THEN {"value"} ELSE Referenced(a, b),
                            IF TruthyStr(cfg.query) THEN RawResult ELSE RunSelect(cfg.table.v, a, b),
                            tbls)}
      : b \in {BuildQuery(cfg, a, valid, tbls)} }

\* sql_source.py 140-152: one ColumnInfo per inspected column.
InspectedColumns(t) ==
    [i \in 1..Len(Catalog(t).cols) |->
       LET c == Catalog(t).cols[i]
           type == Lower(SqlType(t, c))
       IN [name |-> c, dtype |-> SqlType(t, c),
           is_datetime |-> Occurs(type, "date") \/ Occurs(type, "time"),
           is_numeric |-> \E n \in {"int", "float", "decimal", "numeric", "real"} : Occurs(type, n)]]

\* An inference that reads the whole column instead of its first five cells.
DetectColumnInfo_WholeColumn(df) ==
    [i \in 1..Len(df.cols) |->
       LET c == df.cols[i]
       IN [name |-> c, dtype |-> df.dtypes[c],
           is_datetime |-> df.dtypes[c] = "datetime64[ns]"
                           \/ (df.dtypes[c] = "object" /\ AllDates(df, c)),
           is_numeric |-> df.dtypes[c] = "int64"]]

\* base.py 85-111: one ColumnInfo per column of a fetched table.
DetectColumnInfo(df) ==
    [i \in 1..Len(df.cols) |->
       LET c == df.cols[i]
           head5 == Table(df.cols, SubSeq(df.rows, 1, Min(5, Len(df.rows))), df.dtypes)
       IN [name |-> c, dtype |-> df.dtypes[c],
           is_datetime |-> df.dtypes[c] = "datetime64[ns]"
                           \/ (df.dtypes[c] = "object" /\ AllDates(head5, c)),
           is_numeric |-> df.dtypes[c] = "int64"]]

\* The limit get_schema passes to fetch (sql_source.py 163).
SchemaSample == 10

\* sql_source.py 133-168: the outcomes of get_schema(), each with its schema.
SchemaOutcomes(name, cfg, valid, tbls) ==
    IF TruthyStr(cfg.table)
    THEN IF cfg.table.v \notin tbls
         THEN {[o |-> SqlOutcome("NoSuchTableError", "no such table", <<>>, NoTable, valid, tbls, <<>>),
                schema |-> NoSchema]}
         ELSE LET text == "SELECT COUNT(*) FROM " \o cfg.table.v
                  df == Catalog(cfg.table.v)
              IN {[o |-> SqlOutcome(x.kind, IF x.kind = "" THEN "" ELSE "statement failed",
                                    <<Statement(text, <<>>)>>, NoTable, valid, x.tables, <<>>),
                   schema |-> IF x.kind # "" THEN NoSchema
                              ELSE [source_name |-> name, columns |-> InspectedColumns(cfg.table.v),
                                    row_count |-> Len(df.rows)]] :
                    x \in Execute(text, IdentPrefix(cfg.table.v), {}, df, tbls)}
    ELSE {[o |-> f,
           schema |-> IF f.kind # "" THEN NoSchema
                      ELSE [source_name |-> name, columns |-> DetectColumnInfo(f.out),
                            row_count |-> Len(f.out.rows)]] :
            f \in FetchOutcomes(cfg, FetchArgs(NoneSeq, NoneSeq, Some(SchemaSample), NoneStr),
                                valid, tbls)}

NoSCall ==
    [op |-> "", args |-> FetchArgs(NoneSeq, NoneSeq, NoneInt, NoneStr), kind |-> "", msg |-> "",
     sent |-> <<>>, out |-> NoTable, conditions |-> <<>>, schema |-> NoSchema, before |-> {}]

Returned(op, a, o, schema, before) ==
    [op |-> op, args |-> a, kind |-> o.kind, msg |-> o.msg, sent |-> o.sent, out |-> o.out,
     conditions |-> o.conditions, schema |-> schema, before |-> before]

\* await source.fetch(columns, filters, limit, order_by)
SQLFetch(a) ==
    /\ UNCHANGED notSqlVars
    /\ \E o \in FetchOutcomes(sqlCfg, a, valid_columns, tables) :
          /\ scall' = Returned("fetch", a, o, NoSchema, tables)
          /\ valid_columns' = o.valid
          /\ tables' = o.tables
          /\ UNCHANGED sqlCfg

\* await source.get_schema()
SQLGetSchema ==
    /\ UNCHANGED notSqlVars
    /\ \E r \in SchemaOutcomes("test", sqlCfg, valid_columns, tables) :
          /\ scall' = Returned("get_schema", FetchArgs(NoneSeq, NoneSeq, NoneInt, NoneStr),
                               r.o, r.schema, tables)
          /\ valid_columns' = r.o.valid
          /\ tables' = r.o.tables
          /\ UNCHANGED sqlCfg

\* SQLSource(name, config), sql_source.py 33-39: a new driver replaces the
\* one the callers had.
SQLConstruct(cfg) ==
    /\ UNCHANGED notSqlVars
    /\ sqlCfg' = cfg
    /\ valid_columns' = NoValid
    /\ scall' = [NoSCall EXCEPT !.op = "init", !.before = tables]
    /\ UNCHANGED tables

\* The configurations callers construct an SQL driver with.
SqlConfig(table, query) == [table |-> table, query |-> query]
MainConfig == SqlConfig(Some("test_table"), NoneStr)
SqlConfigs ==
    {SqlConfig(t, q) : t \in {NoneStr, Some("test_table"), Some("missing_table"), Some(BadTable)},
                       q \in {NoneStr, Some(RawQuery)}}

SqlFilterCols == {"category", "value"}
SqlFilterVals == {Num(30), Str(Evil)}
SqlFilterInputs ==
    {NoneSeq} \cup {Some(f) : f \in FilterSeqs(SqlFilterCols, SqlFilterVals, MaxConds)}

SmallSqlFilters ==
    { NoneSeq,
      Some(<<LitEntry("category", Str("A"))>>),
      Some(<<LitEntry("category", Str(Evil))>>),
      Some(<<DictEntry("value", [o \in {"gte", "lt"} |-> IF o = "gte" THEN Num(20) ELSE Num(50)])>>),
      Some(<<DictEntry("category", [o \in {"contains"} |-> Str("a")])>>),
      Some(<<LitEntry("nope", Str("A"))>>),
      Some(<<LitEntry("category", Str("A")), DictEntry("nope", [o \in {"gte"} |-> Num(30)])>>),
      Some(<<LitEntry(BadColumn, Num(30))>>) }

SqlColumnInputs ==
    { NoneSeq, Some(<<>>), Some(<<"value">>), Some(<<"date", "value">>), Some(<<"nope">>),
      Some(<<"value", "nope">>), Some(<<BadColumn>>), Some(<<"value\n">>) }

SqlLimitInputs == {NoneInt, Some(0), Some(2), Some(-1)}
SqlOrderInputs == {NoneStr, Some("value"), Some("-value"), Some("-nope"), Some("-"), Some(BadColumn)}

\* The calls of the tests (test_phase1.py 45-61, test_phase1_bugs.py 27-28).
SmallSqlInputs ==
    { FetchArgs(NoneSeq, NoneSeq, NoneInt, NoneStr),
      FetchArgs(Some(<<"value">>), NoneSeq, Some(2), NoneStr),
      FetchArgs(NoneSeq, Some(<<LitEntry("category", Str(Evil))>>), NoneInt, NoneStr),
      FetchArgs(NoneSeq, NoneSeq, NoneInt, Some("-nope")),
      FetchArgs(Some(<<BadColumn>>), NoneSeq, NoneInt, NoneStr) }

\* What the callers of the driver over test_table pass to fetch: every
\* filter expression within the bound on its own, and a few filters with
\* every combination of the other arguments.
MainSqlInputs ==
    {FetchArgs(NoneSeq, f, NoneInt, NoneStr) : f \in SqlFilterInputs}
    \cup {FetchArgs(c, f, l, o) :
            c \in SqlColumnInputs, f \in SmallSqlFilters,
            l \in SqlLimitInputs, o \in SqlOrderInputs}

\* The other configurations get the calls of the tests.
SqlInputs(cfg) == IF cfg = MainConfig THEN MainSqlInputs ELSE SmallSqlInputs

\* A new driver serves some of these calls, which leave its column cache
\* empty or filled, and then one call more.
WarmUps ==
    { FetchArgs(NoneSeq, NoneSeq, NoneInt, NoneStr),
      FetchArgs(Some(<<"value">>), NoneSeq, Some(2), NoneStr) }

MayFetch == scall.op = "init" \/ (scall.op = "fetch" /\ scall.args \in WarmUps)

InitSQL ==
    /\ sqlCfg = MainConfig
    /\ valid_columns = NoValid
    /\ tables \in {{"test_table", "users"}, TableNames}
    /\ scall = [NoSCall EXCEPT !.op = "init", !.before = tables]

(***************************************************************************)
(* get_schema of the file driver.                                          *)
(***************************************************************************)
NoFSchema == [done |-> FALSE, err |-> "", schema |-> NoSchema]

\* csv_source.py 104-112: the schema describes the table _load returns.
CSVGetSchema ==
    /\ \E L \in {Load(heap, df_cache, fileCfg)} :
          IF L.err # ""
          THEN /\ fschema' = [done |-> TRUE, err |-> L.err, schema |-> NoSchema]
               /\ UNCHANGED <<heap, df_cache>>
          ELSE /\ Len(L.heap) <= MaxObjs
               /\ heap' = L.heap
               /\ df_cache' = L.id
               /\ fschema' = [done |-> TRUE, err |-> "",
                              schema |-> [source_name |-> "test",
                                          columns |-> DetectColumnInfo(L.heap[L.id]),
                                          row_count |-> Len(L.heap[L.id].rows)]]
    /\ UNCHANGED <<held, fcall, fileCfg, regVars, sqlVars, apiVars, probe, toolVars, loopVars>>

\* A fetch a caller has noted: the driver, the arguments, the outcome (for
\* the file driver with the object returned).
NoProbe == [driver |-> "", noted |-> FALSE,
            args |-> FetchArgs(NoneSeq, NoneSeq, NoneInt, NoneStr),
            kind |-> "", out |-> NoTable, ret |-> 0]

(***************************************************************************)
(* The HTTP driver (sources/api_source.py) and the endpoint behind it.     *)
(***************************************************************************)
\* The records an endpoint serves: rows [3, 1, 2], and a longer list.
ApiTable ==
    Table(<<"x", "name">>,
          << [x |-> Num(3), name |-> Str("c")],
             [x |-> Num(1), name |-> Str("a")],
             [x |-> Num(2), name |-> Str("b")] >>,
          [x |-> "int64", name |-> "object"])

BigApiTable ==
    Table(ApiTable.cols,
          [i \in 1..BigRows |-> [x |-> Num(BigRows - i), name |-> Str("n")]],
          ApiTable.dtypes)

\* A JSON document: the list of the records of df under the keys of wrap
\* (wrap = <<>>: the document is the list itself), or, with single, one
\* record that is the document.
Body(wrap, single, df) == [wrap |-> wrap, single |-> single, df |-> df]

Bodies ==
    { Body(<<>>, FALSE, ApiTable),
      Body(<<>>, FALSE, BigApiTable),
      Body(<<>>, FALSE, Table(ApiTable.cols, <<>>, ApiTable.dtypes)),
      Body(<<>>, TRUE, Table(ApiTable.cols, <<ApiTable.rows[1]>>, ApiTable.dtypes)),
      Body(<<"data">>, FALSE, ApiTable),
      Body(<<"results">>, FALSE, ApiTable),
      Body(<<"data", "items">>, FALSE, ApiTable),
      Body(<<"payload">>, FALSE, ApiTable) }

\* What the endpoint answers to every request: a status (0: no connection)
\* and a document.
Remote(status, body) == [status |-> status, body |-> body]
MainRemote == Remote(200, Body(<<>>, FALSE, ApiTable))
Remotes ==
    {Remote(200, b) : b \in Bodies}
    \cup {Remote(s, Body(<<>>, FALSE, ApiTable)) : s \in {0, 404, 500}}

\* APISource.__init__ (api_source.py 25-36): what fetch reads of the config.
ApiConfig(url, method, params, data_path) ==
    [url |-> url, method |-> method, params |-> params, data_path |-> data_path]
MainApiConfig == ApiConfig("http://api/a", "GET", <<>>, NoneStr)
ApiConfigs ==
    {ApiConfig("http://api/a", m, p, d) :
        m \in {"GET", "POST"},
        p \in {<<>>, <<LitEntry("page", Num(1))>>},
        d \in {NoneStr, Some("results"), Some("data.items"), Some("data")}}

\* data_path.split(".")
RECURSIVE SplitFrom(_, _, _)
SplitFrom(s, i, word) ==
    IF i > Len(s) THEN <<word>>
    ELSE IF CharAt(s, i) = "." THEN <<word>> \o SplitFrom(s, i + 1, "")
    ELSE SplitFrom(s, i + 1, word \o CharAt(s, i))

Split(s) == SplitFrom(s, 1, "")

IsPrefix(p, w) == Len(p) <= Len(w) /\ SubSeq(w, 1, Len(p)) = p

\* pd.DataFrame of one record whose only key holds a nested document, or of
\* a dict whose only key holds the list of n records: a column of objects.
Nested(key, n) ==
    Table(<<key>>, [i \in 1..n |-> [c \in {key} |-> Str("object")]], [c \in {key} |-> "object"])

\* pd.DataFrame of a list of records: no columns at all when the list is empty.
Frame(df) == IF df.rows = <<>> THEN NoTable ELSE df

\* api_source.py 44-66 and 95: the table made of what _extract_data returns.
ExtractData(data_path, body) ==
    IF ~data_path.some
    THEN IF body.wrap = <<>> THEN Frame(body.df)
         ELSE IF Head(body.wrap) \in {"data", "results"}
              THEN IF Len(body.wrap) = 1 THEN Frame(body.df)
                   ELSE Nested(body.wrap[2], Len(body.df.rows))
              ELSE Nested(Head(body.wrap), 1)
    ELSE LET keys == Split(data_path.v)
         IN IF body.wrap = <<>> \/ ~IsPrefix(keys, body.wrap) THEN NoTable
            ELSE IF keys = body.wrap THEN Frame(body.df)
            ELSE Nested(body.wrap[Len(keys) + 1], 1)

\* dict.update on item sequences: a key that is there keeps its place.
RECURSIVE Update(_, _, _)
Update(d, items, i) ==
    IF i > Len(items) THEN d
    ELSE Update(IF \E j \in 1..Len(d) : d[j].col = items[i].col
                THEN [j \in 1..Len(d) |-> IF d[j].col = items[i].col THEN items[i] ELSE d[j]]
                ELSE Append(d, items[i]),
                items, i + 1)

\* api_source.py 76-89: the request fetch sends.
Request(cfg, filters) ==
    LET params == IF TruthySeq(filters) THEN Update(cfg.params, filters.v, 1) ELSE cfg.params
    IN [method |-> cfg.method, url |-> cfg.url,
        params |-> IF cfg.method = "GET" THEN Some(params) ELSE NoneSeq,
        json |-> IF cfg.method = "POST" THEN Some(params) ELSE NoneSeq]

\* api_source.py 102-104: the requested columns that the data has.
SelectExisting(st, columns) ==
    IF st.err # "" \/ ~TruthySeq(columns) THEN st
    ELSE Ok(Project(st.df, RowsAt(columns.v, {i \in 1..Len(columns.v) :
                                               columns.v[i] \in ColSet(st.df)})),
            TRUE)

\* api_source.py 68-119: the outcome of fetch(a) against the endpoint.
APIFetchResult(cfg, a, rem) ==
    LET st == IF rem.status = 0 THEN Fail("ConnectError", Ok(NoTable, TRUE))
              ELSE IF rem.status < 200 \/ rem.status > 299
              THEN Fail("HTTPStatusError", Ok(NoTable, TRUE))
              ELSE ApplyLimit(
                     ApplySort(
                       SelectExisting(Ok(ParseDates(ExtractData(cfg.data_path, rem.body)), TRUE),
                                      a.columns),
                       a.order_by),
                     a.limit)
    IN [kind |-> st.err, out |-> IF st.err = "" THEN st.df ELSE NoTable,
        request |-> Request(cfg, a.filters)]

NoRequest == [method |-> "", url |-> "", params |-> NoneSeq, json |-> NoneSeq]
NoACall ==
    [op |-> "", args |-> FetchArgs(NoneSeq, NoneSeq, NoneInt, NoneStr), kind |-> "",
     out |-> NoTable, request |-> NoRequest, schema |-> NoSchema]

\* await source.fetch(columns, filters, limit, order_by)
APIFetch(a) ==
    /\ UNCHANGED notApiVars
    /\ \E r \in {APIFetchResult(apiCfg, a, remote)} :
          acall' = [op |-> "fetch", args |-> a, kind |-> r.kind, out |-> r.out,
                    request |-> r.request, schema |-> NoSchema]
    /\ UNCHANGED <<apiCfg, remote>>

\* api_source.py 121-129
APIGetSchema ==
    /\ UNCHANGED notApiVars
    /\ \E r \in {APIFetchResult(apiCfg, FetchArgs(NoneSeq, NoneSeq, Some(SchemaSample), NoneStr),
                                remote)} :
          acall' = [op |-> "get_schema", args |-> NoACall.args, kind |-> r.kind, out |-> NoTable,
                    request |-> r.request,
                    schema |-> IF r.kind # "" THEN NoSchema
                               ELSE [source_name |-> "test",
                                     columns |-> DetectColumnInfo(r.out),
                                     row_count |-> Len(r.out.rows)]]
    /\ UNCHANGED <<apiCfg, remote>>

InitAPI ==
    /\ apiCfg \in ApiConfigs
    /\ remote \in Remotes
    /\ acall = NoACall

\* The endpoint and configuration of the tests' simplest case.
OneAPI == apiCfg = MainApiConfig /\ remote = MainRemote

(***************************************************************************)
(* The registry's calls on the driver it resolved.                         *)
(***************************************************************************)
\* Path(path).suffix: the file name from its last dot on.
RECURSIVE SuffixFrom(_, _)
SuffixFrom(path, i) ==
    IF i < 1 \/ CharAt(path, i) = "/" THEN ""
    ELSE IF CharAt(path, i) = "." THEN SubSeq(path, i, Len(path))
    ELSE SuffixFrom(path, i - 1)

Suffix(path) == SuffixFrom(path, Len(path))

\* APISource.__init__ (api_source.py 25-36) on a registered configuration.
ApiOf(config) ==
    ApiConfig(config.url,
              IF "method" \in DOMAIN config THEN config.method ELSE "GET",
              <<>>, NoneStr)

\* SQLSource.__init__ (sql_source.py 33-39) on a registered configuration.
SqlOf(config) ==
    SqlConfig(IF "table" \in DOMAIN config THEN Some(config.table) ELSE NoneStr,
              IF "query" \in DOMAIN config THEN Some(config.query) ELSE NoneStr)

\* CSVSource.__init__ (csv_source.py 23-29) on a registered configuration.
FileOf(config) ==
    [exists |-> config.path \in ExistingPaths, suffix |-> Suffix(config.path), big |-> FALSE]

Outcome(kind, out) == [kind |-> kind, out |-> out]

\* await source.fetch(...) on a driver of the registry: how it ends and
\* the table it returns.
DriverFetch(drv, a) ==
    CASE drv.cls = "APISource" ->
            {Outcome(r.kind, r.out) : r \in {APIFetchResult(ApiOf(drv.config), a, remote)}}
      [] drv.cls = "CSVSource" ->
            {IF L.err # "" THEN Outcome(L.err, NoTable)
             ELSE LET r == FetchFrom(L.heap[L.id], a)
                  IN Outcome(r.err, IF r.err = "" THEN r.df ELSE NoTable) :
               L \in {Load(<<>>, 0, FileOf(drv.config))}}
      [] drv.cls = "SQLSource" ->
            {Outcome(f.kind, f.out) : f \in FetchOutcomes(SqlOf(drv.config), a, NoValid, tables)}

\* await source.get_schema() on a driver of the registry.
DriverSchema(drv) ==
    CASE drv.cls = "APISource" ->
            {Outcome(r.kind, IF r.kind # "" THEN NoSchema
                             ELSE [source_name |-> drv.name, columns |-> DetectColumnInfo(r.out),
                                   row_count |-> Len(r.out.rows)]) :
               r \in {APIFetchResult(ApiOf(drv.config),
                                     FetchArgs(NoneSeq, NoneSeq, Some(SchemaSample), NoneStr), remote)}}
      [] drv.cls = "CSVSource" ->
            {IF L.err # "" THEN Outcome(L.err, NoSchema)
             ELSE Outcome("", [source_name |-> drv.name,
                               columns |-> DetectColumnInfo(L.heap[L.id]),
                               row_count |-> Len(L.heap[L.id].rows)]) :
               L \in {Load(<<>>, 0, FileOf(drv.config))}}
      [] drv.cls = "SQLSource" ->
            {Outcome(r.o.kind, r.schema) :
               r \in SchemaOutcomes(drv.name, SqlOf(drv.config), NoValid, tables)}

\* registry.py 53-64: fetch_data resolves the name with get and returns what
\* the driver's fetch_as_result returns; an exception of either passes through.
FetchData(name, a) ==
    /\ \E e \in {GetError(sources, name)} :
          IF e.kind # ""
          THEN rcall' = [NoRCall EXCEPT !.op = "fetch_data", !.name = name, !.args = a, !.err = e]
          ELSE \E drv \in {Lookup(sources, name)} :
               \E o \in DriverFetch(drv, a) :
                  rcall' = [NoRCall EXCEPT !.op = "fetch_data", !.name = name, !.args = a,
                                           !.err = Raised(o.kind),
                                           !.invoked = drv.id,
                                           !.result = IF o.kind # "" THEN NoResult
                                                      ELSE FetchAsResult(drv.name, o.out)]
    /\ UNCHANGED <<sources, built, lastReg, engines, notRegVars>>

\* registry.py 66-68
GetSchema(name) ==
    /\ \E e \in {GetError(sources, name)} :
          IF e.kind # ""
          THEN rcall' = [NoRCall EXCEPT !.op = "get_schema", !.name = name, !.err = e]
          ELSE \E drv \in {Lookup(sources, name)} :
               \E o \in DriverSchema(drv) :
                  rcall' = [NoRCall EXCEPT !.op = "get_schema", !.name = name,
                                           !.err = Raised(o.kind),
                                           !.invoked = drv.id,
                                           !.schema = o.out]
    /\ UNCHANGED <<sources, built, lastReg, engines, notRegVars>>

\* What the registry's callers pass to fetch_data.
RegFetchInputs ==
    { FetchArgs(NoneSeq, NoneSeq, NoneInt, NoneStr),
      FetchArgs(Some(<<"x", "nope">>), NoneSeq, Some(2), Some("-x")),
      FetchArgs(Some(<<"name">>), Some(<<LitEntry("name", Str("a"))>>), NoneInt, Some("x")) }

(***************************************************************************)
(* Drivers validated directly, and sources loaded from a YAML document.    *)
(***************************************************************************)
\* What the tests construct a driver from before they call validate()
\* (test_phase2.py 65-91), and an HTTP driver with and without a url.
ValidateInputs ==
    { [cls |-> "DummySource", config |-> <<>>],
      [cls |-> "CSVSource", config |-> [path |-> "/data/sales.csv"]],
      [cls |-> "CSVSource", config |-> [path |-> "/data/nope.csv"]],
      [cls |-> "CSVSource", config |-> [path |-> "/data/sales.txt"]],
      [cls |-> "SQLSource", config |-> [connection_string |-> "sqlite:///test.db"]],
      [cls |-> "SQLSource", config |-> [connection_string |-> "sqlite:///test.db", table |-> "test_table"]],
      [cls |-> "APISource", config |-> [url |-> "http://api/a"]],
      [cls |-> "APISource", config |-> [url |-> ""]] }

\* source = cls("test", config); source.validate()
CallValidate(v) ==
    /\ built < MaxBuilt
    /\ built' = built + 1
    /\ rcall' = [NoRCall EXCEPT !.op = "validate",
                                !.ret = Driver(built + 1, v.cls, "test", v.config),
                                !.err = Raised(ValidateError(v.cls, v.config))]
    /\ engines' = engines \cup Pool(built + 1, v.cls, v.config)
    /\ UNCHANGED <<sources, lastReg, notRegVars>>

\* The definitions a document gives its sources.
SourceDefs ==
    { [type |-> "csv", config |-> [path |-> "/data/sales.csv"]],
      [type |-> "csv", config |-> [path |-> "/data/nope.csv"]],
      [type |-> "rest_api", config |-> [url |-> "http://api/a"]],
      [type |-> "rest_api"],
      [type |-> "xml", config |-> [path |-> "/data/sales.csv"]],
      [config |-> [path |-> "/data/sales.csv"]] }

Entry(name, def) == [name |-> name, def |-> def]

\* What yaml.safe_load gives, when the file exists: nothing, a mapping
\* without "sources", "sources" with no value, or "sources" with one or two
\* entries.
YamlDoc(exists, empty, has_sources, null, entries) ==
    [exists |-> exists, empty |-> empty, has_sources |-> has_sources, null |-> null,
     entries |-> entries]

YamlDocs ==
    { YamlDoc(FALSE, FALSE, FALSE, FALSE, <<>>),
      YamlDoc(TRUE, TRUE, FALSE, FALSE, <<>>),
      YamlDoc(TRUE, FALSE, FALSE, FALSE, <<>>),
      YamlDoc(TRUE, FALSE, TRUE, TRUE, <<>>) }
    \cup {YamlDoc(TRUE, FALSE, TRUE, FALSE, <<Entry(n, d)>>) : n \in Names, d \in SourceDefs}
    \cup {YamlDoc(TRUE, FALSE, TRUE, FALSE, <<Entry(p[1], d), Entry(p[2], e)>>) :
            p \in {q \in Names \X Names : q[1] # q[2]}, d \in SourceDefs, e \in SourceDefs}

\* api.py 46-51: DataSourceConfig(name=name, type=source_def["type"], ...),
\* the exception it raises ("" for none).
ConfigError(def) ==
    IF "type" \notin DOMAIN def THEN "KeyError"
    ELSE IF def.type \notin DOMAIN SOURCE_CLASSES THEN "ValidationError"
    ELSE ""

ConfigOf(def) ==
    [type |-> def.type, config |-> IF "config" \in DOMAIN def THEN def.config ELSE <<>>]

\* api.py 44-55: each entry in turn; an exception of one is logged and the
\* loop goes on.
RECURSIVE LoadEntries(_, _, _)
LoadEntries(st, entries, i) ==
    IF i > Len(entries) THEN st
    ELSE IF ConfigError(entries[i].def) # ""
    THEN LoadEntries([st EXCEPT !.skipped = Append(@, entries[i].name)], entries, i + 1)
    ELSE LET r == Registered(st.sources, st.built, st.lastReg, entries[i].name,
                             ConfigOf(entries[i].def))
         IN LoadEntries([sources |-> r.sources, built |-> r.built, lastReg |-> r.lastReg,
                         engines |-> st.engines \cup r.pool,
                         skipped |-> IF r.err # "" THEN Append(st.skipped, entries[i].name)
                                     ELSE st.skipped],
                        entries, i + 1)

\* api.py 33-56: load_sources_from_yaml(registry, path)
LoadYaml(doc) ==
    /\ built + Len(doc.entries) <= MaxBuilt
    /\ IF ~doc.exists \/ doc.empty \/ ~doc.has_sources
       THEN /\ rcall' = [NoRCall EXCEPT !.op = "load_yaml", !.doc = doc]
            /\ UNCHANGED <<sources, built, lastReg, engines>>
       ELSE IF doc.null
       THEN /\ rcall' = [NoRCall EXCEPT !.op = "load_yaml", !.doc = doc,
                                        !.err = Raised("AttributeError")]
            /\ UNCHANGED <<sources, built, lastReg, engines>>
       ELSE \E st \in {LoadEntries([sources |-> sources, built |-> built, lastReg |-> lastReg,
                                    engines |-> engines,
                                    skipped |-> <<>>], doc.entries, 1)} :
               /\ sources' = st.sources
               /\ built' = st.built
               /\ lastReg' = st.lastReg
               /\ engines' = st.engines
               /\ rcall' = [NoRCall EXCEPT !.op = "load_yaml", !.doc = doc,
                                           !.skipped = st.skipped]
    /\ UNCHANGED notRegVars

(***************************************************************************)
(* The chart engine (charts/engine.py), the chart tool (tools/chart.py)    *)
(* and the transform tool (tools/transform.py).                            *)
(***************************************************************************)
\* models.py 67-72
ChartTypes == {"line", "bar", "scatter", "area"}

NoChart == [chart_type |-> "", title |-> "", data_points |-> 0, x_datetime |-> FALSE]

\* What a call on a tool ends with: the exception raised ("" for none) and
\* its text, the value returned, the caller's table after the call, and
\* whether an attribute of the data was looked up by the given name and called.
ToolOutcome(err, msg, chart, result, after, looked_up, called) ==
    [err |-> err, msg |-> msg, chart |-> chart, result |-> result, after |-> after,
     looked_up |-> looked_up, called |-> called]

\* engine.py 46-50: pd.to_datetime on the column of the copy; a column it
\* refuses stays as it is.
ToDatetime(df, c) ==
    IF df.dtypes[c] = "int64" \/ (df.dtypes[c] = "object" /\ AllDates(df, c))
    THEN Table(df.cols, df.rows, [df.dtypes EXCEPT ![c] = "datetime64[ns]"])
    ELSE df

\* The first of the names that is not a column of df, "" if all are.
RECURSIVE FirstMissing(_, _, _)
FirstMissing(df, names, i) ==
    IF i > Len(names) THEN ""
    ELSE IF names[i] \notin ColSet(df) THEN names[i]
    ELSE FirstMissing(df, names, i + 1)

\* engine.py 16-99 with _build_figure (102-154): the figure reads
\* df[x_column] and df[y_col] for each y_col in turn, then line 79 reads
\* df[x_column] again; the result counts the rows of the copy.
EngineCreateChart(df, chart_type, x_column, y_columns, title) ==
    LET copy == IF x_column \in ColSet(df) THEN ToDatetime(df, x_column) ELSE df
        text == IF title # "" THEN title ELSE Join(y_columns, ", ") \o " over " \o x_column
        missing == IF x_column \notin ColSet(copy) THEN x_column
                   ELSE FirstMissing(copy, y_columns, 1)
    IN IF missing # ""
       THEN ToolOutcome("KeyError", "'" \o missing \o "'", NoChart, <<>>, df, FALSE, FALSE)
       ELSE ToolOutcome("", "",
                        [chart_type |-> chart_type, title |-> text,
                         data_points |-> Len(copy.rows),
                         x_datetime |-> copy.dtypes[x_column] = "datetime64[ns]"],
                        <<>>, df, FALSE, FALSE)

\* tools/chart.py 28-66: the records become a frame, the name of the chart
\* type becomes a ChartType (ValueError for a name that is none), the engine
\* draws.
ToolCreateChart(df, chart_type, x_column, y_columns, title) ==
    IF chart_type \notin ChartTypes
    THEN ToolOutcome("ValueError", "'" \o chart_type \o "' is not a valid ChartType",
                     NoChart, <<>>, df, FALSE, FALSE)
    ELSE [EngineCreateChart(Frame(df), chart_type, x_column, y_columns, title)
            EXCEPT !.after = df]

\* The function names the docstrings of TransformTool list (transform.py 28, 96).
DocumentedFuncs == {"sum", "mean", "count", "min", "max", "std"}

\* The names a Series, a SeriesGroupBy or a Resampler resolves to a method
\* that can be called without arguments: the documented ones and others.
DataAttributes == DocumentedFuncs \cup {"tolist", "nunique"}

RECURSIVE SumOf(_, _)
SumOf(cells, i) == IF i > Len(cells) THEN 0 ELSE cells[i].n + SumOf(cells, i + 1)

\* getattr(series, func)() on a column of integers: an exception and a value.
\* mean is the pair (sum, count); std is not computed here.
Reduce(cells, func) ==
    CASE func = "sum" -> [err |-> "", v |-> Num(SumOf(cells, 1))]
      [] func = "count" -> [err |-> "", v |-> Num(Len(cells))]
      [] func = "nunique" -> [err |-> "", v |-> Num(Cardinality(Range(cells)))]
      [] func = "mean" -> [err |-> "", v |-> <<SumOf(cells, 1), Len(cells)>>]
      [] func = "min" ->
            [err |-> "", v |-> IF cells = <<>> THEN Str("nan")
                               ELSE CHOOSE c \in Range(cells) : \A d \in Range(cells) : c.n <= d.n]
      [] func = "max" ->
            [err |-> "", v |-> IF cells = <<>> THEN Str("nan")
                               ELSE CHOOSE c \in Range(cells) : \A d \in Range(cells) : c.n >= d.n]
      [] func = "std" -> [err |-> "", v |-> Str("std")]
      [] func = "tolist" -> [err |-> "", v |-> cells]
      [] OTHER -> [err |-> "AttributeError", v |-> Str("")]

Column(df, c) == [i \in 1..Len(df.rows) |-> df.rows[i][c]]

\* transform.py 85-103: aggregate(data, column, func)
Aggregate(df, column, func) ==
    LET frame == Frame(df)
    IN IF column \notin ColSet(frame)
       THEN ToolOutcome("KeyError", "'" \o column \o "'", NoChart, <<>>, df, FALSE, FALSE)
       ELSE LET r == Reduce(Column(frame, column), func)
            IN IF r.err # ""
               THEN ToolOutcome(r.err, "'Series' object has no attribute '" \o func \o "'",
                                NoChart, <<>>, df, TRUE, FALSE)
               ELSE ToolOutcome("", "", NoChart,
                                [column |-> column, func |-> func, result |-> r.v],
                                df, TRUE, TRUE)

\* The distinct values of a column in ascending order (groupby sorts its keys).
RECURSIVE Ascending(_)
Ascending(vals) ==
    IF vals = {} THEN <<>>
    ELSE LET least == CHOOSE v \in vals : \A w \in vals : ValEq(v, w) \/ ValLess(v, w)
         IN <<least>> \o Ascending(vals \ {least})

\* transform.py 15-35: groupby(data, group_columns, agg_column, agg_func) with
\* one group column; .agg resolves the name on the grouped column.
GroupBy(df, group_column, agg_column, agg_func) ==
    LET frame == Frame(df)
    IN IF group_column \notin ColSet(frame)
       THEN ToolOutcome("KeyError", "'" \o group_column \o "'", NoChart, <<>>, df, FALSE, FALSE)
       ELSE IF agg_column \notin ColSet(frame)
       THEN ToolOutcome("KeyError", "Column(s) ['" \o agg_column \o "'] do not exist",
                        NoChart, <<>>, df, FALSE, FALSE)
       ELSE IF agg_func \notin DataAttributes
       THEN ToolOutcome("AttributeError",
                        "'SeriesGroupBy' object has no attribute '" \o agg_func \o "'",
                        NoChart, <<>>, df, TRUE, FALSE)
       ELSE LET keys == Ascending(Range(Column(frame, group_column)))
                group(k) == RowsAt(frame.rows, {i \in 1..Len(frame.rows) :
                                                  frame.rows[i][group_column] = k})
            IN ToolOutcome("", "", NoChart,
                           [i \in 1..Len(keys) |->
                              [key |-> keys[i],
                               value |-> Reduce([j \in 1..Len(group(keys[i])) |->
                                                   group(keys[i])[j][agg_column]],
                                                agg_func).v]],
                           df, TRUE, TRUE)

\* transform.py 37-61: resample(data, date_column, freq, agg_column, agg_func)
\* at the frequency of the data (one row a day, freq "D"): each day is its
\* own bucket.
Resample(df, date_column, agg_column, agg_func) ==
    LET frame == Frame(df)
    IN IF date_column \notin ColSet(frame)
       THEN ToolOutcome("KeyError", "'" \o date_column \o "'", NoChart, <<>>, df, FALSE, FALSE)
       ELSE IF ~(frame.dtypes[date_column] \in {"int64", "datetime64[ns]"}
                 \/ AllDates(frame, date_column))
       THEN ToolOutcome("ValueError", "Unknown datetime string format",
                        NoChart, <<>>, df, FALSE, FALSE)
       ELSE IF agg_column \notin ColSet(frame) \ {date_column}
       THEN ToolOutcome("KeyError", "Column(s) ['" \o agg_column \o "'] do not exist",
                        NoChart, <<>>, df, FALSE, FALSE)
       ELSE IF agg_func \notin DataAttributes
       THEN ToolOutcome("AttributeError",
                        "'SeriesGroupBy' object has no attribute '" \o agg_func \o "'",
                        NoChart, <<>>, df, TRUE, FALSE)
       ELSE ToolOutcome("", "", NoChart,
                        [i \in 1..Len(frame.rows) |->
                           [key |-> frame.rows[i][date_column],
                            value |-> Reduce(<<frame.rows[i][agg_column]>>, agg_func).v]],
                        df, TRUE, TRUE)

NoTCall ==
    [tool |-> "", op |-> "", data |-> NoTable, chart_type |-> "", x_column |-> "",
     y_columns |-> <<>>, func |-> "",
     out |-> ToolOutcome("", "", NoChart, <<>>, NoTable, FALSE, FALSE)]

\* DataSource._detect_column_info(df) (base.py 85-111)
DetectInfo(df) ==
    /\ tcall' = [NoTCall EXCEPT !.tool = "DataSource", !.op = "_detect_column_info",
                                !.data = df,
                                !.out = ToolOutcome("", "", NoChart, DetectColumnInfo(df), df,
                                                    FALSE, FALSE)]
    /\ UNCHANGED <<hcall, loopVars, fileVars, fschema, regVars, sqlVars, apiVars, probe>>

\* ChartEngine.create_chart(df, chart_type, x_column, y_columns, title)
EngineChart(df, chart_type, x_column, y_columns, title) ==
    /\ tcall' = [NoTCall EXCEPT !.tool = "ChartEngine", !.op = "create_chart", !.data = df,
                                !.chart_type = chart_type, !.x_column = x_column,
                                !.y_columns = y_columns,
                                !.out = EngineCreateChart(df, chart_type, x_column, y_columns,
                                                          title)]
    /\ UNCHANGED <<hcall, loopVars, fileVars, fschema, regVars, sqlVars, apiVars, probe>>

\* ChartTool().create_chart(data, chart_type, x_column, y_columns, title)
ToolChart(df, chart_type, x_column, y_columns, title) ==
    /\ tcall' = [NoTCall EXCEPT !.tool = "ChartTool", !.op = "create_chart", !.data = df,
                                !.chart_type = chart_type, !.x_column = x_column,
                                !.y_columns = y_columns,
                                !.out = ToolCreateChart(df, chart_type, x_column, y_columns,
                                                        title)]
    /\ UNCHANGED <<hcall, loopVars, fileVars, fschema, regVars, sqlVars, apiVars, probe>>

\* TransformTool().groupby / resample / aggregate on the records of df
Transform(op, df, key_column, column, func) ==
    /\ tcall' = [NoTCall EXCEPT !.tool = "TransformTool", !.op = op, !.data = df,
                                !.x_column = key_column, !.y_columns = <<column>>,
                                !.func = func,
                                !.out = CASE op = "groupby" -> GroupBy(df, key_column, column, func)
                                          [] op = "resample" -> Resample(df, key_column, column, func)
                                          [] op = "aggregate" -> Aggregate(df, column, func)]
    /\ UNCHANGED <<hcall, loopVars, fileVars, fschema, regVars, sqlVars, apiVars, probe>>

(***************************************************************************)
(* The HTTP service (api.py) and its exception handler (middleware.py).    *)
(***************************************************************************)
\* middleware.py 25-31
EXCEPTION_STATUS_MAP ==
    [SourceNotFoundError |-> 404, SourceValidationError |-> 400, FetchError |-> 500,
     ChartError |-> 400, ConfigError |-> 500]

\* exceptions.py 4-39: the classes that derive from DataAgentError.
DataAgentErrors == DOMAIN EXCEPTION_STATUS_MAP \cup {"DataAgentError"}

\* The exception classes "except ValueError" catches.
ValueErrors == {"ValueError"}

\* The ids RequestLoggingMiddleware gives requests (middleware.py 38-39).
RequestIds == {"3f2a9c1e", "a81b77d0"}

\* A response: the status and what the JSON body carries ("" for a key
\* the body does not have).
Response(status, error, message, detail, request_id) ==
    [status |-> status, error |-> error, message |-> message, detail |-> detail,
     request_id |-> request_id]

Exc(kind, message, detail) == [kind |-> kind, message |-> message, detail |-> detail]
HTTPException(status, detail) ==
    [kind |-> "HTTPException", message |-> NatToStr(status) \o ": " \o detail,
     detail |-> detail, status |-> status]

\* middleware.py 66-87: the status of the exception's own class, 500 for a
\* class the map does not have.
ExceptionHandler(exc, request_id) ==
    Response(IF exc.kind \in DOMAIN EXCEPTION_STATUS_MAP THEN EXCEPTION_STATUS_MAP[exc.kind]
             ELSE 500,
             exc.kind, exc.message, exc.detail, request_id)

\* What the application answers when an endpoint function raises exc: an
\* HTTPException becomes its status with {"detail": ...}; a DataAgentError
\* goes to the handler registered at api.py 98; any other exception is a
\* plain 500 of the server.
Answer(exc, request_id) ==
    IF exc.kind = "HTTPException" THEN Response(exc.status, "", "", exc.detail, "")
    ELSE IF exc.kind \in DataAgentErrors THEN ExceptionHandler(exc, request_id)
    ELSE Response(500, "", "", "", "")

NoHCall ==
    [endpoint |-> "", name |-> "", x_column |-> "", y_columns |-> <<>>, filters |-> NoneSeq,
     raised |-> Exc("", "", ""), rows |-> 0, response |-> Response(0, "", "", "", "")]

\* The exception a registry call raised, as the endpoint function sees it.
NotFoundExc(e) == Exc(e.kind, e.message, e.source_name)

\* GET /data-sources/{name}/schema (api.py 141-146)
SchemaEndpoint(name, rid) ==
    /\ \E e \in {GetError(sources, name)} :
          IF e.kind # ""
          THEN hcall' = [NoHCall EXCEPT !.endpoint = "GET /data-sources/{name}/schema",
                                        !.name = name, !.raised = NotFoundExc(e),
                                        !.response = Answer(NotFoundExc(e), rid)]
          ELSE \E o \in DriverSchema(Lookup(sources, name)) :
                  hcall' = [NoHCall EXCEPT !.endpoint = "GET /data-sources/{name}/schema",
                                           !.name = name, !.raised = Exc(o.kind, "", ""),
                                           !.rows = o.out.row_count,
                                           !.response =
                                              IF o.kind # "" THEN Answer(Exc(o.kind, "", ""), rid)
                                              ELSE Response(200, "", "", "", "")]
    /\ UNCHANGED <<tcall, loopVars, fileVars, fschema, regVars, sqlVars, apiVars, probe>>

\* The body of create_chart's try block (api.py 170-191): the exception it
\* raises ("" for none) and the rows fetched.
ChartBody(srcs, rem, req) ==
    LET e == GetError(srcs, req.data_source)
    IN IF e.kind # "" THEN {[exc |-> NotFoundExc(e), rows |-> 0]}
       ELSE { IF o.kind # "" THEN [exc |-> Exc(o.kind, "", ""), rows |-> 0]
              ELSE IF FetchAsResult(req.data_source, o.out).data = <<>>
              THEN [exc |-> HTTPException(404, "No data found"), rows |-> 0]
              ELSE LET c == ToolCreateChart(o.out, req.chart_type, req.x_column,
                                            req.y_columns, "")
                   IN [exc |-> Exc(c.err, c.msg, ""), rows |-> Len(o.out.rows)]
              : o \in DriverFetch(Lookup(srcs, req.data_source),
                                  FetchArgs(NoneSeq, req.filters, NoneInt, Some(req.x_column))) }

\* POST /agent/chart (api.py 163-195): a ValueError of the body is answered
\* 400, every other exception of the body 500.
ChartEndpoint(req, rid) ==
    /\ \E b \in ChartBody(sources, remote, req) :
          hcall' = [NoHCall EXCEPT !.endpoint = "POST /agent/chart",
                                   !.name = req.data_source, !.x_column = req.x_column,
                                   !.y_columns = req.y_columns, !.filters = req.filters,
                                   !.raised = b.exc, !.rows = b.rows,
                                   !.response =
                                      IF b.exc.kind = "" THEN Response(200, "", "", "", "")
                                      ELSE IF b.exc.kind \in ValueErrors
                                      THEN Answer(HTTPException(400, b.exc.message), rid)
                                      ELSE Answer(HTTPException(500, b.exc.message), rid)]
    /\ UNCHANGED <<tcall, loopVars, fileVars, fschema, regVars, sqlVars, apiVars, probe>>

\* POST /data-sources (api.py 149-153)
RegisterEndpoint(name, c, rid) ==
    /\ built < MaxBuilt
    /\ \E r \in {Registered(sources, built, lastReg, name, c)} :
          /\ sources' = r.sources
          /\ built' = r.built
          /\ lastReg' = r.lastReg
          /\ engines' = engines \cup r.pool
          /\ hcall' = [NoHCall EXCEPT !.endpoint = "POST /data-sources", !.name = name,
                                      !.raised = Exc(r.err, "", ""),
                                      !.response =
                                         IF r.err # "" THEN Answer(Exc(r.err, "", ""), rid)
                                         ELSE Response(200, "", r.msg, "", "")]
    /\ UNCHANGED <<rcall, tcall, loopVars, fileVars, fschema, sqlVars, apiVars, probe>>

\* DELETE /data-sources/{name} (api.py 156-160)
RemoveEndpoint(name) ==
    /\ sources' = DelItem(sources, name)
    /\ hcall' = [NoHCall EXCEPT !.endpoint = "DELETE /data-sources/{name}", !.name = name,
                                !.response =
                                   Response(200, "",
                                            IF HasKey(sources, name)
                                            THEN "Data source '" \o name \o "' removed"
                                            ELSE "Data source '" \o name \o "' not found",
                                            "", "")]
    /\ UNCHANGED <<built, lastReg, rcall, engines, tcall, loopVars, fileVars, fschema, sqlVars, apiVars, probe>>


(***************************************************************************)
(* Concurrent calls on the serving event loop.  A call is a task; the loop *)
(* runs one task at a time, from where it stands up to its next real       *)
(* suspension point.  The file driver's pd.read_csv / pd.read_json         *)
(* (csv_source.py 42-48) and the SQL driver's inspect(...).get_columns and *)
(* pd.read_sql (sql_source.py 45, 121, 137) are plain calls inside         *)
(* "async def": the thread of the loop stays in them while the backend     *)
(* works.  The HTTP driver's "await client.request" (api_source.py 82)     *)
(* hands the loop back until the response is there.                        *)
(***************************************************************************)
\* Calls in flight at once.
MaxTasks == 2
TaskIds == 1..MaxTasks

NoArgs == FetchArgs(NoneSeq, NoneSeq, NoneInt, NoneStr)
NoTask == [src |-> "", op |-> "", args |-> NoArgs, pc |-> "free", kind |-> "", out |-> NoTable,
           schema |-> NoSchema, reads |-> {}, raced |-> FALSE, warm |-> FALSE]
Call(src, op, args) == [src |-> src, op |-> op, args |-> args]

\* What the backend work of a call reads: the file, the catalog of the
\* database, rows of the database, the HTTP endpoint.
FileReads(cache, cfg) ==
    IF cache = 0 /\ Lower(cfg.suffix) \in {".json", ".csv", ".tsv"} THEN {"file"} ELSE {}
SqlFetchReads(cfg, a, valid, tbls) ==
    LET b == BuildQuery(cfg, a, valid, tbls)
    IN (IF b.valid # valid \/ b.kind = "NoSuchTableError" THEN {"catalog"} ELSE {})
       \cup (IF b.kind = "" THEN {"rows"} ELSE {})
SqlSchemaReads(cfg, valid, tbls) ==
    IF TruthyStr(cfg.table) THEN {"catalog", "rows"}
    ELSE SqlFetchReads(cfg, FetchArgs(NoneSeq, NoneSeq, Some(SchemaSample), NoneStr), valid, tbls)
Reads(c) ==
    IF c.src = "file" THEN FileReads(df_cache, fileCfg)
    ELSE IF c.src = "sql"
    THEN IF c.op = "fetch" THEN SqlFetchReads(sqlCfg, c.args, valid_columns, tables)
         ELSE SqlSchemaReads(sqlCfg, valid_columns, tables)
    ELSE {"http"}

\* The cache of the task's driver is populated.
Warm(c) ==
    IF c.src = "file" THEN df_cache # 0 ELSE IF c.src = "sql" THEN valid_columns.some ELSE FALSE

Ended(task, kind, out, schema, reads) ==
    [task EXCEPT !.pc = "done", !.kind = kind, !.out = out, !.schema = schema, !.reads = reads]

\* The task runs to its end: the rest of fetch / get_schema on its driver.
Complete(t, c, reads) ==
    IF c.src = "file"
    THEN /\ \E L \in {Load(heap, df_cache, fileCfg)} :
              IF L.err # ""
              THEN /\ tasks' = [tasks EXCEPT ![t] = Ended(c, L.err, NoTable, NoSchema, reads)]
                   /\ UNCHANGED <<heap, df_cache>>
              ELSE /\ heap' = L.heap
                   /\ df_cache' = L.id
                   /\ IF c.op = "fetch"
                      THEN \E r \in {FetchFrom(L.heap[L.id], c.args)} :
                              tasks' = [tasks EXCEPT ![t] =
                                          Ended(c, r.err, IF r.err = "" THEN r.df ELSE NoTable,
                                                NoSchema, reads)]
                      ELSE tasks' = [tasks EXCEPT ![t] =
                                       Ended(c, "", NoTable,
                                             [source_name |-> "test",
                                              columns |-> DetectColumnInfo(L.heap[L.id]),
                                              row_count |-> Len(L.heap[L.id].rows)], reads)]
         /\ UNCHANGED <<held, fcall, fileCfg, fschema, regVars, sqlVars, apiVars, probe, toolVars>>
    ELSE IF c.src = "sql"
    THEN /\ IF c.op = "fetch"
            THEN \E o \in FetchOutcomes(sqlCfg, c.args, valid_columns, tables) :
                    /\ tasks' = [tasks EXCEPT ![t] = Ended(c, o.kind, o.out, NoSchema, reads)]
                    /\ valid_columns' = o.valid
                    /\ tables' = o.tables
            ELSE \E r \in SchemaOutcomes("test", sqlCfg, valid_columns, tables) :
                    /\ tasks' = [tasks EXCEPT ![t] = Ended(c, r.o.kind, NoTable, r.schema, reads)]
                    /\ valid_columns' = r.o.valid
                    /\ tables' = r.o.tables
         /\ UNCHANGED <<sqlCfg, scall, fileVars, fschema, regVars, apiVars, probe, toolVars>>
    ELSE /\ IF c.op = "fetch"
            THEN \E r \in {APIFetchResult(apiCfg, c.args, remote)} :
                    tasks' = [tasks EXCEPT ![t] = Ended(c, r.kind, r.out, NoSchema, reads)]
            ELSE \E r \in {APIFetchResult(apiCfg,
                                          FetchArgs(NoneSeq, NoneSeq, Some(SchemaSample), NoneStr),
                                          remote)} :
                    tasks' = [tasks EXCEPT ![t] =
                                Ended(c, r.kind, NoTable,
                                      IF r.kind # "" THEN NoSchema
                                      ELSE [source_name |-> "test",
                                            columns |-> DetectColumnInfo(r.out),
                                            row_count |-> Len(r.out.rows)], reads)]
         /\ UNCHANGED <<fileVars, fschema, regVars, sqlVars, apiVars, probe, toolVars>>

\* asyncio.create_task(source.fetch(...)) / asyncio.gather(...): the call is
\* scheduled, nothing of it has run.
Issue(t, c) ==
    /\ tasks[t].pc = "free"
    /\ \A u \in TaskIds : u < t => tasks[u].pc # "free"
    /\ tasks' = [tasks EXCEPT ![t] = [NoTask EXCEPT !.src = c.src, !.op = c.op, !.args = c.args,
                                                     !.pc = "ready"]]
    /\ UNCHANGED <<running, fileVars, fschema, regVars, sqlVars, apiVars, probe, toolVars>>

\* The loop picks a scheduled task and runs it up to its backend work: a
\* file or SQL task keeps the loop while the backend works, an HTTP task
\* gives it back.  A task with no backend work to do runs to its end.
Start(t) ==
    /\ running = 0
    /\ tasks[t].pc = "ready"
    /\ \E c \in {[tasks[t] EXCEPT
                    !.warm = Warm(tasks[t]),
                    !.raced = \E u \in TaskIds \ {t} :
                                 tasks[u].src = tasks[t].src /\ tasks[u].pc \in {"ready", "io"}]} :
          IF Reads(c) = {}
          THEN /\ Complete(t, c, {})
               /\ UNCHANGED running
          ELSE /\ tasks' = [tasks EXCEPT ![t] = [c EXCEPT !.pc = "io"]]
               /\ running' = IF c.src = "api" THEN 0 ELSE t
               /\ UNCHANGED <<fileVars, fschema, regVars, sqlVars, apiVars, probe, toolVars>>

\* The backend work of a task is over and the task runs to its end: at once
\* for a task that kept the loop, when the loop is free for an HTTP task.
Finish(t) ==
    /\ tasks[t].pc = "io"
    /\ running = (IF tasks[t].src = "api" THEN 0 ELSE t)
    /\ Complete(t, tasks[t], Reads(tasks[t]))
    /\ running' = 0

\* The caller has taken the result of an ended call.
Collect(t) ==
    /\ tasks[t].pc = "done"
    /\ tasks' = [tasks EXCEPT ![t] = NoTask]
    /\ UNCHANGED <<running, fileVars, fschema, regVars, sqlVars, apiVars, probe, toolVars>>

InitLoop == tasks = [t \in TaskIds |-> NoTask] /\ running = 0

\* No request, no tool call and no task so far.
InitTools == hcall = NoHCall /\ tcall = NoTCall /\ InitLoop

(***************************************************************************)
(* Specifications.                                                         *)
(***************************************************************************)
Init == InitFile /\ InitReg /\ InitSQL /\ InitAPI /\ InitTools /\ probe = NoProbe

\* The parts a specification does not exercise, pinned.
OneFile == fileCfg = [exists |-> TRUE, suffix |-> ".csv", big |-> FALSE]
SmallFile == ~fileCfg.big
OneDatabase == tables = {"test_table", "users"}

\* The file driver with its callers: fetches, in-place mutation, release.
NextCache ==
    \/ \E a \in CacheInputs : CSVFetch(a)
    \/ \E id \in 1..MaxObjs, col \in {"new_col", "value"} : MutateColumn(id, col)
    \/ \E id \in 1..MaxObjs : MutateDrop(id)
    \/ Release

InitCache == Init /\ SmallFile /\ OneDatabase /\ OneAPI

SpecCache == InitCache /\ [][NextCache]_vars

\* fetch as a function of its arguments: one call, then the result is dropped.
FetchOnce == ~fcall.done /\ \E a \in FetchInputs : CSVFetch(a)

NextFetch ==
    \/ FetchOnce
    \/ Release

\* A file that loads.
InitFetch == Init /\ OneFile /\ OneDatabase /\ OneAPI

SpecFetch == InitFetch /\ [][NextFetch]_vars

\* The registry and its callers.
NextReg ==
    \/ \E n \in Names, c \in ConfigInputs : Register(n, c)
    \/ \E n \in Names : Unregister(n)
    \/ ListSources
    \/ \E n \in Names : Get(n)
    \/ \E n \in Names, a \in RegFetchInputs : FetchData(n, a)
    \/ \E n \in Names : GetSchema(n)

InitRegistry == Init /\ OneFile /\ OneDatabase /\ OneAPI

SpecReg == InitRegistry /\ [][NextReg]_vars

\* The SQL driver, its database and its callers.
SQLFetchCall == MayFetch /\ \E a \in SqlInputs(sqlCfg) : SQLFetch(a)

NextSQL ==
    \/ \E c \in SqlConfigs : SQLConstruct(c)
    \/ SQLFetchCall
    \/ SQLGetSchema

InitSQLSpec == Init /\ OneFile /\ OneAPI

SpecSQL == InitSQLSpec /\ [][NextSQL]_vars

(***************************************************************************)
(* C1 - copy on return.                                                    *)
(***************************************************************************)
\* C1: whatever fetches were made and whatever the callers did to the tables
\* they got back, the cached table equals the table as first loaded, every
\* fetch returns what its arguments select from that unmodified table, and
\* the returned object is neither the cache object nor an object returned
\* before.
C1_CopyOnReturn ==
    /\ df_cache # 0 => heap[df_cache] = FileTable
    /\ (fcall.done /\ fcall.err = "") =>
          /\ fcall.out = FetchFrom(FileTable, fcall.args).df
          /\ fcall.ret # fcall.cached
          /\ fcall.ret \notin fcall.prior

(***************************************************************************)
(* C10 - filtering.                                                        *)
(***************************************************************************)
FiveOps == {"gte", "lte", "gt", "lt", "eq"}

\* A row satisfies a filter entry, counting the operators of opset only.
RowSatisfies(row, e, opset) ==
    IF e.isDict
    THEN \A o \in (DOMAIN e.ops) \cap opset : CellHolds(o, row[e.col], e.ops[o])
    ELSE ValEq(row[e.col], e.lit)

\* The positions of the rows of df that satisfy every entry whose column df has.
Matching(df, filters, opset) ==
    {i \in 1..Len(df.rows) :
        \A j \in 1..Len(filters.v) :
            filters.v[j].col \in ColSet(df) => RowSatisfies(df.rows[i], filters.v[j], opset)}

\* A fetch(filters=F) that returned.
FiltersOnlyCall ==
    /\ fcall.done /\ fcall.err = ""
    /\ fcall.args.filters.some
    /\ ~fcall.args.columns.some /\ ~fcall.args.limit.some /\ ~fcall.args.order_by.some

FilteredAs(opset) ==
    LET keep == Matching(FileTable, fcall.args.filters, opset)
    IN /\ fcall.out.rows = RowsAt(FileTable.rows, keep)
       /\ FetchAsResult("sales", fcall.out).row_count = Cardinality(keep)

Registrable(c) ==
    CASE c.type \in {"csv", "json"} ->
            /\ "path" \in DOMAIN c.config
            /\ c.config.path \in ExistingPaths
      [] c.type = "sql" ->
            /\ "connection_string" \in DOMAIN c.config
            /\ c.config.connection_string \in EngineURLs
            /\ "table" \in DOMAIN c.config
      [] c.type = "rest_api" -> "url" \in DOMAIN c.config /\ c.config.url # ""

\* C5: register of a config whose preconditions hold, for every source type,
\* returns a confirmation containing 'registered' and leaves the name listed
\* and bound to the driver built from the config; fetch_data and get_schema
\* for a registered name call that driver.
C5_RegistrationSucceeds ==
    /\ (rcall.op = "register" /\ Registrable(rcall.cfg)) =>
          /\ rcall.err.kind = ""
          /\ Occurs(rcall.msg, "registered")
          /\ rcall.name \in Range(List(sources))
          /\ Lookup(sources, rcall.name).config = rcall.cfg.config
          /\ Lookup(sources, rcall.name).cls = SOURCE_CLASSES[rcall.cfg.type]
    /\ (rcall.op \in {"fetch_data", "get_schema"} /\ HasKey(sources, rcall.name)) =>
          rcall.invoked = Lookup(sources, rcall.name).id

\* A file source whose configured path does not exist.
MissingFile(c) ==
    /\ c.type \in {"csv", "json"}
    /\ "path" \in DOMAIN c.config
    /\ c.config.path \notin ExistingPaths

\* C6: register of a file source whose path does not exist fails with
\* SourceValidationError and leaves the registry mapping as it was.
C6_EagerValidation ==
    [][(rcall'.op = "register" /\ MissingFile(rcall'.cfg)) =>
          (rcall'.err.kind = "SourceValidationError" /\ sources' = sources)]_vars

\* C7: list() holds each name at most once, and a listed name is bound to the
\* driver built by the most recent successful register of that name.
C7_ReRegistration ==
    /\ \A i, j \in 1..Len(sources) : i # j => sources[i].name # sources[j].name
    /\ \A n \in Names : HasKey(sources, n) =>
          /\ Lookup(sources, n) = lastReg[n]
          /\ Lookup(sources, n).name = n

\* C7 witness: "sales" was registered, then "metrics", then "sales" again with
\* another url: it keeps its place in the dict and is bound to the new driver.
C7_Witness ==
    /\ Len(sources) = 2
    /\ sources[1] = [name |-> "sales",
                     drv |-> Driver(3, "APISource", "sales", [url |-> "http://api/b"])]
    /\ sources[2].name = "metrics" /\ sources[2].drv.id = 2

\* C8: unregister never raises; for a registered name it removes that entry
\* and no other; for an unknown name it answers 'not found' and changes
\* nothing; either way the name is not registered afterwards.
C8_Unregister ==
    [][rcall'.op = "unregister" =>
          /\ rcall'.err.kind = ""
          /\ ~HasKey(sources', rcall'.name)
          /\ \A n \in Names \ {rcall'.name} :
                /\ HasKey(sources', n) = HasKey(sources, n)
                /\ Lookup(sources', n) = Lookup(sources, n)
          /\ Len(sources') = Len(sources) - (IF HasKey(sources, rcall'.name) THEN 1 ELSE 0)
          /\ ~HasKey(sources, rcall'.name) =>
                (sources' = sources /\ Occurs(rcall'.msg, "not found"))]_vars

\* C8 witness: the first-registered of two sources was removed, the other stays.
C8_Witness ==
    /\ rcall.op = "unregister" /\ Occurs(rcall.msg, "removed")
    /\ Len(sources) = 1
    /\ lastReg[rcall.name].id < sources[1].drv.id

\* C9: get, fetch_data and get_schema for a name that is not registered fail
\* with SourceNotFoundError listing the names registered at that moment
\* ('none' in the message when there is none), call no driver and leave the
\* registry as it was.
C9_UnknownName ==
    [][(rcall'.op \in {"get", "fetch_data", "get_schema"} /\ ~HasKey(sources, rcall'.name)) =>
          /\ rcall'.err.kind = "SourceNotFoundError"
          /\ rcall'.err.source_name = rcall'.name
          /\ rcall'.err.available = List(sources)
          /\ (sources = <<>>) = Occurs(rcall'.err.message, "Available: none")
          /\ rcall'.invoked = 0
          /\ rcall'.ret = NoDriver
          /\ sources' = sources]_vars

\* C9 witness: a name that was registered and then unregistered is not found,
\* and the error lists the one name still registered.
C9_Witness ==
    /\ rcall.op = "fetch_data" /\ rcall.err.kind = "SourceNotFoundError"
    /\ lastReg[rcall.name] # NoDriver
    /\ Len(rcall.err.available) = 1

(***************************************************************************)
(* C2, C3, C4 - the SQL driver's statements.                               *)
(***************************************************************************)
\* The driver has a table and no custom query, so fetch builds its statement.
TableOnly == TruthyStr(sqlCfg.table) /\ ~TruthyStr(sqlCfg.query)

\* The column names a fetch call supplies: columns, filter keys, and the
\* order_by column without its leading '-'.
NamesOf(a) ==
    (IF TruthySeq(a.columns) THEN Range(a.columns.v) ELSE {})
    \cup (IF TruthySeq(a.filters) THEN {a.filters.v[i].col : i \in 1..Len(a.filters.v)} ELSE {})
    \cup (IF TruthyStr(a.order_by) THEN {SortCol(a.order_by.v)} ELSE {})

\* The table's real column set in the database as the call found it.
RealColumns(t, tbls) == IF t \in tbls THEN ColSet(Catalog(t)) ELSE {}

\* C2: a fetch on a table-configured driver that supplies a name outside the
\* table's real column set fails, with ValueError when the table exists, and
\* sends no statement to the database.
C2_ColumnWhitelist ==
    (/\ scall.op = "fetch"
     /\ TableOnly
     /\ \E n \in NamesOf(scall.args) : n \notin RealColumns(sqlCfg.table.v, scall.before))
    => /\ scall.kind \in {"ValueError", "NoSuchTableError"}
       /\ sqlCfg.table.v \in scall.before => scall.kind = "ValueError"
       /\ scall.sent = <<>>

\* A call with a real column and an order_by column the table lacks was refused.
C2_Witness ==
    /\ scall.op = "fetch"
    /\ sqlCfg = MainConfig
    /\ scall.args.columns = Some(<<"value">>)
    /\ scall.args.order_by = Some("-nope")
    /\ scall.kind = "ValueError"
    /\ scall.msg = "Column not found in table"
    /\ scall.sent = <<>>

\* C3: every table and column name in a statement the driver sent matched the
\* identifier pattern, and get_schema on a driver whose table is named
\* "test; DROP TABLE users; --" fails with 'Invalid SQL identifier' and sends
\* nothing.
C3_IdentifierValidation ==
    /\ (/\ scall.sent # <<>>
        /\ TruthyStr(sqlCfg.table)
        /\ scall.op = "get_schema" \/ ~TruthyStr(sqlCfg.query))
       => /\ SafeIdentifier(sqlCfg.table.v)
          /\ \A n \in NamesOf(scall.args) : SafeIdentifier(n)
    /\ (scall.op = "get_schema" /\ sqlCfg.table = Some(BadTable))
       => /\ scall.kind = "ValueError"
          /\ scall.msg = "Invalid SQL identifier"
          /\ scall.sent = <<>>

\* The call with every filter value replaced by 0.
CanonEntry(e) ==
    IF e.isDict THEN DictEntry(e.col, [o \in DOMAIN e.ops |-> Num(0)]) ELSE LitEntry(e.col, Num(0))
Canonical(a) ==
    [a EXCEPT !.filters = IF a.filters.some
                          THEN Some([i \in 1..Len(a.filters.v) |-> CanonEntry(a.filters.v[i])])
                          ELSE a.filters]

\* The values of the comparisons that have an SQL spelling, in the order the
\* driver meets them.
RECURSIVE OpVals(_, _)
OpVals(ops, k) ==
    IF k > Len(OpOrder) THEN <<>>
    ELSE (IF OpOrder[k] \in DOMAIN ops /\ OpOrder[k] \in DOMAIN SqlOps
          THEN <<ops[OpOrder[k]]>> ELSE <<>>) \o OpVals(ops, k + 1)

RECURSIVE BoundVals(_, _)
BoundVals(fs, i) ==
    IF i > Len(fs) THEN <<>>
    ELSE (IF fs[i].isDict THEN OpVals(fs[i].ops, 1) ELSE <<fs[i].lit>>) \o BoundVals(fs, i + 1)

\* C4: on a table-configured driver a fetch builds the text that the same
\* call with other filter values builds (and fails to build when that one
\* fails); the text never holds the metacharacter value; the parameter map
\* holds the filter values, in order, under pairwise distinct names that
\* the conditions name; and the tables the database had are still there.
C4_Parameterized ==
    (scall.op = "fetch" /\ TableOnly)
    => /\ \E c \in {BuildQuery(sqlCfg, Canonical(scall.args), NoValid, scall.before)} :
            /\ (scall.sent = <<>>) <=> (c.kind # "")
            /\ scall.sent # <<>> => scall.sent[1].text = c.query
       /\ scall.sent # <<>> =>
            \E s \in {scall.sent[1]} :
               /\ ~Occurs(s.text, Evil)
               /\ Len(s.params) = Len(scall.conditions)
               /\ \A i, j \in 1..Len(s.params) : i # j => s.params[i].name # s.params[j].name
               /\ \A i \in 1..Len(s.params) : scall.conditions[i].param = s.params[i].name
               /\ [i \in 1..Len(s.params) |-> s.params[i].val]
                    = (IF TruthySeq(scall.args.filters)
                       THEN BoundVals(scall.args.filters.v, 1) ELSE <<>>)
       /\ tables = scall.before

\* The call of test_phase1_bugs.py 27-38 returned: no rows, the value bound
\* as p0, the table still there.
C4_Witness ==
    /\ scall.op = "fetch"
    /\ sqlCfg = MainConfig
    /\ scall.args = FetchArgs(NoneSeq, Some(<<LitEntry("category", Str(Evil))>>), NoneInt, NoneStr)
    /\ scall.kind = ""
    /\ scall.sent = <<Statement("SELECT * FROM test_table WHERE category = :p0",
                                <<[name |-> "p0", val |-> Str(Evil)]>>)>>
    /\ scall.out.rows = <<>>
    /\ "test_table" \in tables

(***************************************************************************)
(* One call on a new driver of each kind.                                  *)
(***************************************************************************)
\* What the callers pass: columns and order keys of the file and the table
\* (value, category), of the endpoint's records (x, name), and of neither.
QueryColumns ==
    { NoneSeq, Some(<<>>), Some(<<"value">>), Some(<<"x">>), Some(<<"category", "value">>),
      Some(<<"name", "nope", "x">>), Some(<<"value", "nope">>) }
QueryFilters == {NoneSeq, Some(<<LitEntry("category", Str("A"))>>)}
QueryLimits == {NoneInt, Some(0), Some(2), Some(BigRows - 1)}
QueryOrders ==
    { NoneStr, Some("value"), Some("-value"), Some("x"), Some("-x"), Some("nope"), Some("") }

QueryInputs ==
    {FetchArgs(c, f, l, o) :
        c \in QueryColumns, f \in QueryFilters, l \in QueryLimits, o \in QueryOrders}

\* No call has been made on the drivers the callers hold.
Idle == ~fcall.done /\ ~fschema.done /\ scall.op = "init" /\ acall.op = ""

FileQuery == Idle /\ \E a \in QueryInputs : CSVFetch(a)
SqlQuery == Idle /\ \E a \in QueryInputs : SQLFetch(a)
ApiQuery == Idle /\ \E a \in QueryInputs : APIFetch(a)
FileSchema == Idle /\ CSVGetSchema
SqlSchema == Idle /\ SQLGetSchema
ApiSchema == Idle /\ APIGetSchema

\* The callers drop what they hold and construct the three drivers anew
\* from the same configurations.
Restart ==
    /\ ~Idle
    /\ heap' = <<>>
    /\ df_cache' = 0
    /\ held' = {}
    /\ fcall' = NoCall
    /\ fschema' = NoFSchema
    /\ valid_columns' = NoValid
    /\ scall' = [NoSCall EXCEPT !.op = "init", !.before = tables]
    /\ acall' = NoACall
    /\ UNCHANGED <<fileCfg, sqlCfg, tables, apiCfg, remote, regVars, probe, toolVars, loopVars>>

NextQuery ==
    \/ FileQuery
    \/ SqlQuery
    \/ ApiQuery
    \/ FileSchema
    \/ SqlSchema
    \/ ApiSchema
    \/ Restart

\* A file of either length that loads, the table of the tests, every
\* endpoint and configuration of the HTTP driver.
InitQuery == Init /\ fileCfg.exists /\ fileCfg.suffix = ".csv" /\ OneDatabase

SpecQuery == InitQuery /\ [][NextQuery]_vars

(***************************************************************************)
(* C11: limit.                                                             *)
(***************************************************************************)
NoLimit(a) == [a EXCEPT !.limit = NoneInt]
Capped(a) == a.limit.some /\ a.limit.v >= 0
FirstRows(rows, a) == SubSeq(rows, 1, Min(a.limit.v, Len(rows)))

\* C11: on each of the three drivers, a fetch with limit = N >= 0 that
\* returns, returns the first min(N, M) rows, in order, of the M rows the
\* same call without a limit gives.
C11_Limit ==
    /\ (fcall.done /\ fcall.err = "" /\ Capped(fcall.args)) =>
          fcall.out.rows
            = FirstRows(FetchFrom(FileContents(fileCfg), NoLimit(fcall.args)).df.rows, fcall.args)
    /\ (acall.op = "fetch" /\ acall.kind = "" /\ Capped(acall.args)) =>
          acall.out.rows
            = FirstRows(APIFetchResult(apiCfg, NoLimit(acall.args), remote).out.rows, acall.args)
    /\ (scall.op = "fetch" /\ scall.kind = "" /\ Capped(scall.args) /\ TableOnly) =>
          \A f \in FetchOutcomes(sqlCfg, NoLimit(scall.args), NoValid, scall.before) :
             f.kind = "" /\ scall.out.rows = FirstRows(f.out.rows, scall.args)

(***************************************************************************)
(* C12: order_by.                                                          *)
(***************************************************************************)
NoOrder(a) == [a EXCEPT !.order_by = NoneStr]
Ordered(a) == TruthyStr(a.order_by) /\ ~a.limit.some
Descending(a) == CharAt(a.order_by.v, 1) = "-"
OrderColumn(a) ==
    IF Descending(a) THEN SubSeq(a.order_by.v, 2, Len(a.order_by.v)) ELSE a.order_by.v

Times(rows, r) == Cardinality({i \in 1..Len(rows) : rows[i] = r})
SameRows(p, q) == \A r \in Range(p) \cup Range(q) : Times(p, r) = Times(q, r)

\* The rows never step down (ascending) or up (descending) in column c.
SortedBy(rows, c, desc) ==
    \A i, j \in 1..Len(rows) :
       i < j => IF desc THEN ~ValLess(rows[i][c], rows[j][c])
                        ELSE ~ValLess(rows[j][c], rows[i][c])

\* What order_by does to the rows `plain` that the same call gives without it.
OrderedAs(out, plain, a) ==
    /\ out.cols = plain.cols
    /\ SameRows(out.rows, plain.rows)
    /\ IF OrderColumn(a) \in ColSet(plain)
       THEN SortedBy(out.rows, OrderColumn(a), Descending(a))
       ELSE out.rows = plain.rows

Existing(columns, df) ==
    RowsAt(columns, {i \in 1..Len(columns) : columns[i] \in ColSet(df)})

\* C13: on the file and HTTP drivers a fetch with a list of columns returns,
\* and the result has exactly the listed columns that the data has, in the
\* order of the list.
C13_ColumnSelection ==
    /\ (fcall.done /\ fcall.args.columns.some) =>
          /\ fcall.err = ""
          /\ fcall.out.cols = Existing(fcall.args.columns.v, FileContents(fileCfg))
    /\ (acall.op = "fetch" /\ acall.args.columns.some /\ remote.status = 200) =>
          /\ acall.kind = ""
          /\ acall.out.cols = Existing(acall.args.columns.v, ExtractData(apiCfg.data_path, remote.body))

(***************************************************************************)
(* The registry serving its callers.                                       *)
(***************************************************************************)
\* The endpoint answers, answers with an error status, or cannot be reached.
ServeRemotes ==
    { MainRemote,
      Remote(200, Body(<<"data", "items">>, FALSE, ApiTable)),
      Remote(404, Body(<<>>, FALSE, ApiTable)),
      Remote(0, Body(<<>>, FALSE, ApiTable)) }

NextServe ==
    \/ \E n \in Names, c \in ConfigInputs : Register(n, c)
    \/ \E n \in Names : Unregister(n)
    \/ \E n \in Names, a \in RegFetchInputs : FetchData(n, a)
    \/ \E n \in Names : GetSchema(n)
    \/ \E v \in ValidateInputs : CallValidate(v)
    \/ \E doc \in YamlDocs : LoadYaml(doc)

InitServe ==
    /\ InitFile /\ OneFile
    /\ InitReg
    /\ InitSQL /\ OneDatabase
    /\ apiCfg = MainApiConfig /\ remote \in ServeRemotes /\ acall = NoACall
    /\ probe = NoProbe
    /\ InitTools

SpecServe == InitServe /\ [][NextServe]_vars

(***************************************************************************)
(* C14: the DataResult of fetch_data.                                      *)
(***************************************************************************)
\* C14: every DataResult fetch_data returns has row_count = len(data), the
\* name the source is registered under as source_name, and in every row
\* only keys that are in columns.
C14_ResultModel ==
    (rcall.op = "fetch_data" /\ rcall.err.kind = "") =>
       /\ rcall.result.row_count = Len(rcall.result.data)
       /\ rcall.result.source_name = rcall.name
       /\ \A i \in 1..Len(rcall.result.data) :
             DOMAIN rcall.result.data[i] \subseteq Range(rcall.result.columns)

\* A fetch_data that selected a column, sorted and limited returned two rows
\* of one key.
C14_Witness ==
    /\ rcall.op = "fetch_data" /\ rcall.err.kind = ""
    /\ rcall.args = FetchArgs(Some(<<"x", "nope">>), NoneSeq, Some(2), Some("-x"))
    /\ rcall.result.columns = <<"x">>
    /\ rcall.result.row_count = 2
    /\ \A i \in 1..2 : DOMAIN rcall.result.data[i] = {"x"}

(***************************************************************************)
(* C16: validate().                                                        *)
(***************************************************************************)
\* A precondition whose violation makes every fetch of the driver fail.
Violated(drv) ==
    CASE drv.cls = "CSVSource" ->
            \/ drv.config.path \notin ExistingPaths
            \/ Lower(Suffix(drv.config.path)) \notin {".csv", ".tsv", ".json"}
      [] drv.cls = "SQLSource" ->
            "table" \notin DOMAIN drv.config /\ "query" \notin DOMAIN drv.config
      [] drv.cls = "APISource" -> "url" \notin DOMAIN drv.config \/ drv.config.url = ""
      [] OTHER -> FALSE

\* C16: validate() on a driver of any class, the class that defines only
\* fetch and get_schema included, changes no state, returns when the
\* driver's preconditions hold and raises SourceValidationError when one is
\* violated.
C16_ValidateContract ==
    [][rcall'.op = "validate" =>
          /\ rcall'.err.kind = IF Violated(rcall'.ret) THEN "SourceValidationError" ELSE ""
          /\ sources' = sources
          /\ lastReg' = lastReg]_vars

(***************************************************************************)
(* C17: load_sources_from_yaml.                                            *)
(***************************************************************************)
\* The entries of a document that would register on their own.
Loadable(doc) ==
    {doc.entries[i].name : i \in {j \in 1..Len(doc.entries) :
                                     /\ ConfigError(doc.entries[j].def) = ""
                                     /\ Registrable(ConfigOf(doc.entries[j].def))}}

\* C17: load_sources_from_yaml raises nothing; a missing file or a document
\* without "sources" leaves the registry as it was; otherwise the names listed
\* afterwards are those listed before and those of the entries that would
\* register on their own, whatever the other entries are.
C17_BulkLoad ==
    [][(rcall'.op = "load_yaml" /\ ~rcall'.doc.null) =>
          /\ rcall'.err.kind = ""
          /\ IF ~rcall'.doc.exists \/ rcall'.doc.empty \/ ~rcall'.doc.has_sources
             THEN sources' = sources
             ELSE Range(List(sources')) = Range(List(sources)) \cup Loadable(rcall'.doc)]_vars

(***************************************************************************)
(* C20: backend failures through fetch_data.                               *)
(***************************************************************************)
\* The backend of the resolved driver fails the call.
BackendFails(drv) ==
    CASE drv.cls = "APISource" -> remote.status < 200 \/ remote.status > 299
      [] drv.cls = "CSVSource" -> Load(<<>>, 0, FileOf(drv.config)).err # ""
      [] OTHER -> FALSE

\* C20: a fetch_data whose backend fails - a status outside 2xx, no
\* connection, a file that cannot be read - raises FetchError.
C20_FetchError ==
    (rcall.op = "fetch_data" /\ rcall.invoked # 0
       /\ BackendFails(Lookup(sources, rcall.name))) =>
          rcall.err.kind = "FetchError"

(***************************************************************************)
(* C19: the raw query of an SQL source.                                    *)
(***************************************************************************)
\* C19: a fetch on a driver with a query configured, with or without a
\* table, sends that text alone with no parameters, whatever the arguments,
\* and raises none of the validation errors; a fetch on a driver with
\* neither fails with ValueError and sends nothing.
C19_RawQueryOverride ==
    /\ (scall.op = "fetch" /\ TruthyStr(sqlCfg.query)) =>
          /\ scall.sent = <<Statement(sqlCfg.query.v, <<>>)>>
          /\ scall.kind \notin {"ValueError", "NoSuchTableError"}
          /\ scall.conditions = <<>>
    /\ (scall.op = "fetch" /\ ~TruthyStr(sqlCfg.query) /\ ~TruthyStr(sqlCfg.table)) =>
          /\ scall.kind = "ValueError"
          /\ scall.sent = <<>>

\* A driver with the raw query and a table name that is no identifier ran
\* the query for a fetch that asked for a column that is no identifier.
C19_Witness ==
    /\ scall.op = "fetch" /\ scall.kind = ""
    /\ sqlCfg = SqlConfig(Some(BadTable), Some(RawQuery))
    /\ scall.args.columns = Some(<<BadColumn>>)
    /\ scall.sent = <<Statement(RawQuery, <<>>)>>
    /\ scall.out = ParseDates(RawResult)

(***************************************************************************)
(* C18: the rows get_schema looks at.                                      *)
(***************************************************************************)
\* C18: get_schema of the file driver and of the HTTP driver reports as
\* row_count the size of a sample of at most 10 rows of the data;
\* get_schema of the SQL driver with a table reports the table's row count
\* and sends only the count statement.
C18_SchemaSample ==
    /\ (fschema.done /\ fschema.err = "") =>
          fschema.schema.row_count = Min(SchemaSample, Len(FileContents(fileCfg).rows))
    /\ (acall.op = "get_schema" /\ acall.kind = "") =>
          acall.schema.row_count
             = Min(SchemaSample, Len(ExtractData(apiCfg.data_path, remote.body).rows))
    /\ (scall.op = "get_schema" /\ scall.kind = "" /\ TableOnly) =>
          /\ scall.schema.row_count = Len(Catalog(sqlCfg.table.v).rows)
          /\ scall.sent = <<Statement("SELECT COUNT(*) FROM " \o sqlCfg.table.v, <<>>)>>

(***************************************************************************)
(* A session with one driver: calls one after another on the same driver,  *)
(* over data that stays as it is.                                          *)
(***************************************************************************)
SessionInputs ==
    { FetchArgs(NoneSeq, NoneSeq, NoneInt, NoneStr),
      FetchArgs(Some(<<"value">>), NoneSeq, Some(2), NoneStr),
      FetchArgs(NoneSeq, Some(<<LitEntry("category", Str("A"))>>), NoneInt, Some("-value")),
      FetchArgs(Some(<<"value", "nope">>), NoneSeq, NoneInt, NoneStr),
      FetchArgs(Some(<<"x">>), NoneSeq, Some(2), Some("x")),
      FetchArgs(NoneSeq, Some(<<DictEntry("value", [o \in {"gte"} |-> Num(30)])>>), Some(0),
                Some("nope")) }

SessionSqlConfigs == {MainConfig, SqlConfig(NoneStr, Some(RawQuery))}
SessionApiConfigs ==
    {MainApiConfig, ApiConfig("http://api/a", "POST", <<LitEntry("page", Num(1))>>, Some("data.items"))}
SessionRemotes == {MainRemote, Remote(200, Body(<<"data", "items">>, FALSE, ApiTable))}

FileCall == probe.driver = "file" /\ \E a \in SessionInputs : CSVFetch(a)
FileSchemaCall == probe.driver = "file" /\ CSVGetSchema
FileRelease == probe.driver = "file" /\ Release
SqlCall == probe.driver = "sql" /\ \E a \in SessionInputs : SQLFetch(a)
SqlSchemaCall == probe.driver = "sql" /\ SQLGetSchema
ApiCall == probe.driver = "api" /\ \E a \in SessionInputs : APIFetch(a)
ApiSchemaCall == probe.driver = "api" /\ APIGetSchema

\* The caller notes the fetch that has just ended.
Observe ==
    /\ ~probe.noted
    /\ \/ /\ probe.driver = "file" /\ fcall.done
          /\ probe' = [probe EXCEPT !.noted = TRUE, !.args = fcall.args, !.kind = fcall.err,
                                    !.out = fcall.out, !.ret = fcall.ret]
       \/ /\ probe.driver = "sql" /\ scall.op = "fetch"
          /\ probe' = [probe EXCEPT !.noted = TRUE, !.args = scall.args, !.kind = scall.kind,
                                    !.out = scall.out]
       \/ /\ probe.driver = "api" /\ acall.op = "fetch"
          /\ probe' = [probe EXCEPT !.noted = TRUE, !.args = acall.args, !.kind = acall.kind,
                                    !.out = acall.out]
    /\ UNCHANGED <<fileVars, fschema, regVars, sqlVars, apiVars, toolVars, loopVars>>

NextSession ==
    \/ FileCall
    \/ FileSchemaCall
    \/ FileRelease
    \/ SqlCall
    \/ SqlSchemaCall
    \/ ApiCall
    \/ ApiSchemaCall
    \/ Observe

InitSession ==
    /\ InitFile /\ OneFile
    /\ InitReg
    /\ sqlCfg \in SessionSqlConfigs
    /\ valid_columns = NoValid
    /\ OneDatabase
    /\ scall = [NoSCall EXCEPT !.op = "init", !.before = tables]
    /\ apiCfg \in SessionApiConfigs /\ remote \in SessionRemotes /\ acall = NoACall
    /\ probe \in {[NoProbe EXCEPT !.driver = d] : d \in {"file", "sql", "api"}}
    /\ InitTools

SpecSession == InitSession /\ [][NextSession]_vars

(***************************************************************************)
(* C15: fetch twice.                                                       *)
(***************************************************************************)
\* C15: on each driver, a fetch with the arguments of a fetch noted earlier
\* in the session ends as that one did and returns an equal table, whatever
\* fetch and get_schema calls were made on the driver in between; the calls
\* leave the tables of the database as they are.
C15_Idempotence ==
    probe.noted =>
       /\ (probe.driver = "file" /\ fcall.done /\ fcall.args = probe.args) =>
             fcall.err = probe.kind /\ fcall.out = probe.out
       /\ (probe.driver = "sql" /\ scall.op = "fetch" /\ scall.args = probe.args) =>
             scall.kind = probe.kind /\ scall.out = probe.out
       /\ (probe.driver = "api" /\ acall.op = "fetch" /\ acall.args = probe.args) =>
             acall.kind = probe.kind /\ acall.out = probe.out
       /\ tables = {"test_table", "users"}

\* The file driver returned, for the arguments of the fetch noted, another
\* object than it returned then, after a get_schema and while the caller
\* still held an earlier result.
C15_Witness ==
    /\ probe.noted /\ probe.driver = "file"
    /\ fcall.done /\ fcall.err = "" /\ fcall.args = probe.args
    /\ fcall.ret # probe.ret
    /\ probe.ret \in fcall.prior
    /\ fschema.done
    /\ Len(fcall.out.rows) = 2

(***************************************************************************)
(* The HTTP service answering requests.                                    *)
(***************************************************************************)
\* The endpoint behind the HTTP sources: records, no records, a server
\* error, no connection.
HttpRemotes ==
    { MainRemote,
      Remote(200, Body(<<>>, FALSE, Table(ApiTable.cols, <<>>, ApiTable.dtypes))),
      Remote(500, Body(<<>>, FALSE, ApiTable)),
      Remote(0, Body(<<>>, FALSE, ApiTable)) }

\* models.py 75-85: the ChartRequest bodies clients post.
ChartRequests ==
    { [data_source |-> n, chart_type |-> "line", x_column |-> x, y_columns |-> ys,
       filters |-> NoneSeq] :
        n \in Names, x \in {"x", "nope"}, ys \in {<<"x">>, <<"x", "nope">>} }

NextHttp ==
    \/ \E n \in Names, c \in ConfigInputs, rid \in RequestIds : RegisterEndpoint(n, c, rid)
    \/ \E n \in Names : RemoveEndpoint(n)
    \/ \E n \in Names, rid \in RequestIds : SchemaEndpoint(n, rid)
    \/ \E req \in ChartRequests, rid \in RequestIds : ChartEndpoint(req, rid)

InitHttp ==
    /\ InitFile /\ OneFile
    /\ InitReg
    /\ InitSQL /\ OneDatabase
    /\ apiCfg = MainApiConfig /\ remote \in HttpRemotes /\ acall = NoACall
    /\ probe = NoProbe
    /\ InitTools

SpecHttp == InitHttp /\ [][NextHttp]_vars

(***************************************************************************)
(* C21: the status of a failure.                                           *)
(***************************************************************************)
\* C21: on every endpoint a failure of a kind of the status map is answered
\* with the status of its kind (source-not-found 404, source-validation-error
\* 400, fetch-error 500, chart-error 400, config-error 500) and a body that
\* carries the kind, the message and the request id; POST /agent/chart
\* answers 404 when the fetch returns no rows.
C21_ErrorStatus ==
    /\ hcall.raised.kind \in DOMAIN EXCEPTION_STATUS_MAP =>
          /\ hcall.response.status = EXCEPTION_STATUS_MAP[hcall.raised.kind]
          /\ hcall.response.error = hcall.raised.kind
          /\ hcall.response.message = hcall.raised.message
          /\ hcall.response.request_id \in RequestIds
    /\ (hcall.endpoint = "POST /agent/chart" /\ hcall.raised.kind = "HTTPException") =>
          hcall.response.status = hcall.raised.status

(***************************************************************************)
(* The tools called on a table.                                            *)
(***************************************************************************)
ToolTables == {FileTable, Table(FileTable.cols, <<>>, FileTable.dtypes)}
ToolFuncs == DataAttributes \cup {"dangerous_func", "eval", "__import__"}

NextTools ==
    \/ \E df \in ToolTables, t \in ChartTypes, x \in {"date", "nope"},
          ys \in {<<>>, <<"value">>, <<"value", "zzz">>, <<"nope">>}, title \in {"", "Sales"} :
          EngineChart(df, t, x, ys, title)
    \/ \E df \in ToolTables, t \in ChartTypes \cup {"pie"}, x \in {"date", "nope"},
          ys \in {<<"value">>, <<"nonexistent_column">>} :
          ToolChart(df, t, x, ys, "")
    \/ \E df \in ToolTables, op \in {"groupby", "resample"}, k \in {"category", "date", "nope"},
          c \in {"value", "nope"}, f \in ToolFuncs :
          Transform(op, df, k, c, f)
    \/ \E df \in ToolTables, c \in {"value", "nope"}, f \in ToolFuncs :
          Transform("aggregate", df, "", c, f)

InitToolsSpec == Init /\ OneFile /\ OneDatabase /\ OneAPI

SpecTools == InitToolsSpec /\ [][NextTools]_vars

(***************************************************************************)
(* C22: chart parameters.                                                  *)
(***************************************************************************)
\* The columns create_chart sees: the table's, or those of the frame made
\* of the records.
ChartColumns == ColSet(IF tcall.tool = "ChartTool" THEN Frame(tcall.data) ELSE tcall.data)

\* C22: create_chart of the engine and of the tool fails with ChartError and
\* returns no chart when x_column or a member of y_columns is not a column of
\* the data; with all of them present the result's data_points is the number
\* of input rows; the caller's table is the same after the call.
C22_ChartValidation ==
    (tcall.op = "create_chart" /\ tcall.chart_type \in ChartTypes) =>
       /\ ~(({tcall.x_column} \cup Range(tcall.y_columns)) \subseteq ChartColumns) =>
             tcall.out.err = "ChartError" /\ tcall.out.chart = NoChart
       /\ (({tcall.x_column} \cup Range(tcall.y_columns)) \subseteq ChartColumns) =>
             tcall.out.err = "" /\ tcall.out.chart.data_points = Len(tcall.data.rows)
       /\ tcall.out.after = tcall.data

(***************************************************************************)
(* C23: the aggregation functions.                                         *)
(***************************************************************************)
\* The call names columns the data has.
ColumnsExist ==
    /\ Range(tcall.y_columns) \subseteq ColSet(Frame(tcall.data))
    /\ tcall.op = "groupby" => tcall.x_column \in ColSet(Frame(tcall.data))
    /\ tcall.op = "resample" => tcall.x_column = "date"

\* C23: groupby, resample and aggregate called with a function name outside
\* the allowed set fail with ValueError "Invalid aggregation function"
\* before an attribute of the data is looked up or called; aggregate accepts
\* every name of the allowed set.
C23_AllowList ==
    (tcall.tool = "TransformTool" /\ ColumnsExist) =>
       /\ tcall.func \notin DocumentedFuncs =>
             /\ tcall.out.err = "ValueError"
             /\ ~tcall.out.looked_up
             /\ ~tcall.out.called
       /\ (tcall.op = "aggregate" /\ tcall.func \in DocumentedFuncs) => tcall.out.err = ""

(***************************************************************************)
(* Schema inference on sampled tables.                                     *)
(***************************************************************************)
\* The longest column inferred from: one cell more than the inference reads.
SampleLen == 6

\* A cell of a string column: a date, text that is no date, nothing.
DateCells == {Str("2024-01-15"), Str("abc"), Missing}
SampleColumns == UNION {[1..n -> DateCells] : n \in 0..SampleLen}

\* A table with a string column of the given cells, a column of integers and
\* a column stored as datetimes.
SampleTable(cells) ==
    Table(<<"when", "n", "at">>,
          [i \in 1..Len(cells) |-> [when |-> cells[i], n |-> Num(i), at |-> Str("2024-01-15")]],
          [when |-> "object", n |-> "int64", at |-> "datetime64[ns]"])

SampleTables == {SampleTable(cells) : cells \in SampleColumns}

\* One table is sampled and inferred from; the caller drops the result.
InferOnce == tcall = NoTCall /\ \E df \in SampleTables : DetectInfo(df)

Forget ==
    /\ tcall # NoTCall
    /\ tcall' = NoTCall
    /\ UNCHANGED <<hcall, loopVars, fileVars, fschema, regVars, sqlVars, apiVars, probe>>

NextInfer ==
    \/ InferOnce
    \/ Forget

InitInfer == Init /\ OneFile /\ OneDatabase /\ OneAPI

SpecInfer == InitInfer /\ [][NextInfer]_vars

(***************************************************************************)
(* C24: datetime columns.                                                  *)
(***************************************************************************)
\* pd.to_datetime takes the cell.
Parses(v) == v = Missing \/ (v.k = "str" /\ IsDate(v))

RECURSIVE CondCount(_, _)
CondCount(fs, i) == IF i > Len(fs) THEN 0 ELSE Conds(fs[i]) + CondCount(fs, i + 1)

\* A row meets an entry as the database compares (contains: the substring
\* test of the filter grammar).
SqlSatisfies(row, e) ==
    IF e.isDict
    THEN \A o \in DOMAIN e.ops :
            IF o \in DOMAIN SqlOps THEN SqlHolds(SqlOps[o], row[e.col], e.ops[o])
            ELSE CellHolds(o, row[e.col], e.ops[o])
    ELSE SqlHolds("=", row[e.col], e.lit)

\* C25: on a table-configured driver a fetch with filters that returns has
\* built one condition for every literal entry and one for every operator of
\* every operator map (gte, lte, gt, lt, eq, contains), and returns no row
\* that fails an entry.
C25_NoFilterDropped ==
    (scall.op = "fetch" /\ TableOnly /\ scall.kind = "" /\ TruthySeq(scall.args.filters)) =>
       /\ Len(scall.conditions) = CondCount(scall.args.filters.v, 1)
       /\ \A i \in 1..Len(scall.out.rows), j \in 1..Len(scall.args.filters.v) :
             scall.args.filters.v[j].col \in ColSet(scall.out) =>
                SqlSatisfies(scall.out.rows[i], scall.args.filters.v[j])

(***************************************************************************)
(* C30: file filtering and column selection.                               *)
(***************************************************************************)
\* C30: on the file driver, fetch(columns=C, filters=F, order_by=O, limit=N)
\* returns the projection onto C of what the same call without columns
\* returns, also when F or O names a column of the file that is not in C.
C30_FilterIndependent ==
    (fcall.done /\ fcall.err = "" /\ TruthySeq(fcall.args.columns)) =>
       \E plain \in {FetchFrom(FileContents(fileCfg), [fcall.args EXCEPT !.columns = NoneSeq])} :
          plain.err = "" => fcall.out = Project(plain.df, fcall.args.columns.v)

(***************************************************************************)
(* C28: a call that fails.                                                 *)
(***************************************************************************)
\* A fetch or get_schema on the file driver, on the SQL driver, that ends
\* with an exception.
FailedFileCall ==
    \/ \E a \in SessionInputs : CSVFetch(a) /\ fcall'.err # ""
    \/ CSVGetSchema /\ fschema'.err # ""
FailedSqlCall ==
    \/ \E a \in SessionInputs : SQLFetch(a) /\ scall'.kind # ""
    \/ SQLGetSchema /\ scall'.kind # ""

\* C28: a fetch or get_schema that raises leaves the file driver's table
\* cache and the SQL driver's column-set cache as they were before the call
\* (and the registry mapping, which these calls never touch).
C28_FailureIsPure ==
    [][ /\ FailedFileCall => df_cache' = df_cache
        /\ FailedSqlCall => valid_columns' = valid_columns
        /\ (FailedFileCall \/ FailedSqlCall) => sources' = sources ]_vars

(***************************************************************************)
(* Concurrent calls on the three drivers, on one event loop.               *)
(***************************************************************************)
LoopCalls ==
    { Call("file", "fetch", NoArgs),
      Call("file", "fetch", FetchArgs(Some(<<"value">>), NoneSeq, Some(2), NoneStr)),
      Call("file", "fetch", FetchArgs(Some(<<"nope">>), NoneSeq, NoneInt, NoneStr)),
      Call("file", "get_schema", NoArgs),
      Call("sql", "fetch", NoArgs),
      Call("sql", "fetch", FetchArgs(Some(<<"value">>), NoneSeq, NoneInt, Some("-value"))),
      Call("sql", "fetch", FetchArgs(Some(<<"nope">>), NoneSeq, NoneInt, NoneStr)),
      Call("sql", "get_schema", NoArgs),
      Call("api", "fetch", NoArgs),
      Call("api", "get_schema", NoArgs) }

IssueCall == \E t \in TaskIds, c \in LoopCalls : Issue(t, c)
StartTask == \E t \in TaskIds : Start(t)
FinishTask == \E t \in TaskIds : Finish(t)
CollectResult == \E t \in TaskIds : Collect(t)

NextLoop ==
    \/ IssueCall
    \/ StartTask
    \/ FinishTask
    \/ CollectResult

\* One driver of each kind over data that loads: the file and the table of
\* the tests, or a raw query; the endpoint of the tests.
InitLoopSpec ==
    /\ InitFile /\ OneFile
    /\ InitReg
    /\ sqlCfg \in SessionSqlConfigs
    /\ valid_columns = NoValid
    /\ OneDatabase
    /\ scall = [NoSCall EXCEPT !.op = "init", !.before = tables]
    /\ InitAPI /\ OneAPI
    /\ probe = NoProbe
    /\ InitTools

SpecLoop == InitLoopSpec /\ [][NextLoop]_vars

(***************************************************************************)
(* C27: backend work and the event loop.                                   *)
(***************************************************************************)
\* C27: while a call on one driver is waiting for its backend (file read,
\* SQL execution, HTTP request) and a call on another driver is scheduled,
\* the event loop is free to run the other call: no call keeps the loop for
\* the time its backend works.
C27_IOSuspends ==
    \A t, u \in TaskIds :
       (tasks[t].pc = "io" /\ tasks[u].pc = "ready" /\ tasks[u].src # tasks[t].src)
          => running = 0

(***************************************************************************)
(* C26: the load-once caches under concurrent calls.                       *)
(***************************************************************************)
\* A populated cache holds what the backend holds: the table of the file,
\* the column set of the configured table.
CacheFromBackend ==
    /\ df_cache # 0 => heap[df_cache] = FileContents(fileCfg)
    /\ valid_columns.some =>
          (TruthyStr(sqlCfg.table) /\ valid_columns.v = ColSet(Catalog(sqlCfg.table.v)))

\* A populated cache is the same object with the same contents after any step.
CacheKept ==
    /\ df_cache # 0 => (df_cache' = df_cache /\ heap'[df_cache] = heap[df_cache])
    /\ valid_columns.some => valid_columns' = valid_columns

\* The calls that have ended and found the cache of their driver populated.
WarmCalls == {t \in TaskIds : tasks[t].pc = "done" /\ tasks[t].warm}

\* C26 as stated: the caches go from empty to the backend's value once and
\* stay, and a call that finds the cache populated reads neither the file
\* nor the catalog.
C26_NeverReadAgain ==
    /\ CacheFromBackend
    /\ \A t \in WarmCalls : tasks[t].reads \cap {"file", "catalog"} = {}

\* C26, amended: for any interleaving of concurrent fetch / get_schema calls
\* on one driver, each cache goes from empty to the value computed from the
\* backend and is never reset or replaced afterwards; a call that finds the
\* cache populated does not read the file, and a fetch that finds the column
\* set populated does not read the catalog (get_schema on a configured
\* table reads the catalog on every call); calls racing to populate leave
\* the value a single call leaves.
C26_LoadOnceCaches ==
    /\ [](/\ CacheFromBackend
          /\ \A t \in WarmCalls :
                /\ "file" \notin tasks[t].reads
                /\ tasks[t].op = "fetch" => "catalog" \notin tasks[t].reads)
    /\ [][CacheKept]_vars

\* Two calls on the SQL driver were in flight together and have ended, one
\* of them on a populated column set, after the file driver has loaded.
C26_Witness ==
    /\ df_cache # 0
    /\ valid_columns.some
    /\ \E t, u \in TaskIds :
          /\ t # u
          /\ tasks[t].src = "sql" /\ tasks[u].src = "sql"
          /\ tasks[t].pc = "done" /\ tasks[u].pc = "done"
          /\ tasks[t].raced /\ "catalog" \in tasks[t].reads
          /\ tasks[u].warm /\ tasks[u].op = "fetch" /\ tasks[u].reads = {"rows"}

(***************************************************************************)
(* The registry and the connection pools of its drivers.                   *)
(***************************************************************************)
\* The drivers something still refers to: the registry, or the caller of
\* the last call.
Referenced_Drivers == {sources[i].drv.id : i \in 1..Len(sources)} \cup {rcall.ret.id}

\* The garbage collector, at a time of its choosing, finalizes the engines
\* of drivers nothing refers to.
CollectGarbage ==
    /\ engines \ Referenced_Drivers # {}
    /\ engines' = engines \cap Referenced_Drivers
    /\ UNCHANGED <<sources, built, lastReg, rcall, notRegVars>>

RegisterCall == \E n \in Names, c \in ConfigInputs : Register(n, c)
UnregisterCall == \E n \in Names : Unregister(n)
ValidateCall == \E v \in ValidateInputs : CallValidate(v)

NextPools ==
    \/ RegisterCall
    \/ UnregisterCall
    \/ ValidateCall
    \/ CollectGarbage

SpecPools == InitRegistry /\ [][NextPools]_vars

\* C29: after any sequence of register / unregister calls the live
\* connection pools are those of drivers that are in the registry.
C29_PoolsReleased ==
    rcall.op \in {"register", "unregister"} =>
       engines \subseteq {sources[i].drv.id : i \in 1..Len(sources)}

====
